---- MODULE Spec2Model ----
(***************************************************************************)
(* Registry-and-dispatch subsystem of the MedCalc service: the definition  *)
(* builder (app/registry.py), the field translator, the dispatcher         *)
(* (app/services/calculator_runner.py), the post-processing table          *)
(* (app/services/post_processors.py) and the three routes                  *)
(* (app/routes/calculators.py).                                            *)
(*                                                                         *)
(* A Python str is a sequence of one-character strings; a dict is a        *)
(* sequence of <<key, value>> pairs in insertion order with unique keys.   *)
(***************************************************************************)
EXTENDS Integers, Sequences, FiniteSets, TLC

VARIABLES
    calc_path_file,   \* CALC_PATH_FILE on disk: [status, content]
    name_map_file,    \* NAME_TO_PYTHON_FILE on disk: [status, content]
    registries,       \* the CalculatorRegistry objects built so far
    registry_cache,   \* lru_cache(maxsize=1) of get_registry: <<>> or the
                      \* index in registries of the cached object
    callable_cache,   \* _callable_cache: dict from (module_path, function_name)
    builds,           \* number of _build_definitions calls begun so far
    req,              \* per request: its position in the handler and its locals
    out               \* the value computed by the pure-function drivers

vars == <<calc_path_file, name_map_file, registries, registry_cache,
          callable_cache, builds, req, out>>

----------------------------------------------------------------------------
(* Strings and dicts *)

None == <<"None">>

UPPER == <<"A","B","C","D","E","F","G","H","I","J","K","L","M",
           "N","O","P","Q","R","S","T","U","V","W","X","Y","Z">>
LOWER == <<"a","b","c","d","e","f","g","h","i","j","k","l","m",
           "n","o","p","q","r","s","t","u","v","w","x","y","z">>
DIGITS == <<"0","1","2","3","4","5","6","7","8","9">>

Range(s) == {s[i] : i \in DOMAIN s}

\* the lower-case letter of each upper-case letter
LowerOf ==
    [c \in Range(UPPER) |-> LOWER[CHOOSE i \in DOMAIN UPPER : UPPER[i] = c]]

\* str.lower() of one character
lower_char(c) == IF c \in DOMAIN LowerOf THEN LowerOf[c] ELSE c

\* str.lower()
lower(s) == [i \in DOMAIN s |-> lower_char(s[i])]

DigitChars == Range(DIGITS)
AlnumChars == Range(LOWER) \cup DigitChars

\* the character class [a-z0-9]
IsAlnum(c) == c \in AlnumChars

\* str(n) of a non-negative int
RECURSIVE str_int(_)
str_int(n) ==
    IF n < 10 THEN <<DIGITS[n + 1]>>
    ELSE str_int(n \div 10) \o <<DIGITS[(n % 10) + 1]>>

\* the int a run of decimal digits denotes
RECURSIVE int_of(_)
int_of(digits) ==
    IF digits = <<>> THEN 0
    ELSE int_of(SubSeq(digits, 1, Len(digits) - 1)) * 10
           + (CHOOSE d \in 0..9 : DIGITS[d + 1] = digits[Len(digits)])

all_digits(s) == s # <<>> /\ \A i \in DOMAIN s : s[i] \in DigitChars

\* a str() that reads a str of digits as the int it denotes
str_of_int(v) ==
    IF v # <<>> /\ Head(v) = "#" THEN Tail(v)
    ELSE IF all_digits(v) THEN str_int(int_of(v))
    ELSE v

\* a JSON number is held as "#" followed by its digits; str() of it drops the
\* tag, str() of a str is the str itself
str(v) == IF v # <<>> /\ Head(v) = "#" THEN Tail(v) ELSE v

\* key in d
Has(d, k) == \E i \in DOMAIN d : d[i][1] = k

\* d.get(k)
Get(d, k) ==
    IF Has(d, k) THEN d[CHOOSE i \in DOMAIN d : d[i][1] = k][2] ELSE None

\* a store that adds an entry even when the key is there
put_again(d, k, v) == Append(d, <<k, v>>)

\* d[k] = v  (an existing key keeps its position)
Put(d, k, v) ==
    IF Has(d, k)
    THEN [i \in DOMAIN d |-> IF d[i][1] = k THEN <<k, v>> ELSE d[i]]
    ELSE Append(d, <<k, v>>)

Keys(d) == {d[i][1] : i \in DOMAIN d}

\* Python truthiness of an optional str
Truthy(v) == v # None /\ v # <<>>

\* a or b
Or(a, b) == IF Truthy(a) THEN a ELSE b

----------------------------------------------------------------------------
(* app/registry.py *)

META_KEYS == {
    <<"f","i","l","e"," ","p","a","t","h">>,
    <<"e","x","p","l","a","n","a","t","i","o","n"," ","f","u","n","c","t","i","o","n">>,
    <<"c","a","l","c","u","l","a","t","o","r"," ","n","a","m","e">>,
    <<"t","y","p","e">>,
    <<"q","u","e","s","t","i","o","n">> }

K_file_path == <<"f","i","l","e"," ","p","a","t","h">>
K_explanation_function ==
    <<"e","x","p","l","a","n","a","t","i","o","n"," ","f","u","n","c","t","i","o","n">>
K_calculator_name == <<"c","a","l","c","u","l","a","t","o","r"," ","n","a","m","e">>
K_type == <<"t","y","p","e">>
K_question == <<"q","u","e","s","t","i","o","n">>
K_Calculator_ID == <<"C","a","l","c","u","l","a","t","o","r"," ","I","D">>
K_File_Path == <<"F","i","l","e"," ","P","a","t","h">>
K_Explanation_Function ==
    <<"E","x","p","l","a","n","a","t","i","o","n"," ","F","u","n","c","t","i","o","n">>
K_Calculator_Name == <<"C","a","l","c","u","l","a","t","o","r"," ","N","a","m","e">>
DEFAULT_SLUG == <<"c","a","l","c","u","l","a","t","o","r">>

\* re.sub(r"[^a-z0-9]+", "-", s)
RECURSIVE sub_non_alnum(_)
sub_non_alnum(s) ==
    IF s = <<>> THEN <<>>
    ELSE IF IsAlnum(Head(s)) THEN <<Head(s)>> \o sub_non_alnum(Tail(s))
    ELSE IF Len(s) > 1 /\ ~IsAlnum(s[2]) THEN sub_non_alnum(Tail(s))
    ELSE <<"-">> \o sub_non_alnum(Tail(s))

\* re.sub(r"-{2,}", "-", s)
RECURSIVE sub_hyphens(_)
sub_hyphens(s) ==
    IF s = <<>> THEN <<>>
    ELSE IF Head(s) = "-" /\ Len(s) > 1 /\ s[2] = "-" THEN sub_hyphens(Tail(s))
    ELSE <<Head(s)>> \o sub_hyphens(Tail(s))

\* a strip that removes nothing
keep_hyphens(s) == s

\* s.strip("-")
RECURSIVE strip_hyphens(_)
strip_hyphens(s) ==
    IF s = <<>> THEN <<>>
    ELSE IF Head(s) = "-" THEN strip_hyphens(Tail(s))
    ELSE IF s[Len(s)] = "-" THEN strip_hyphens(SubSeq(s, 1, Len(s) - 1))
    ELSE s

_slugify(value) ==
    LET slug == strip_hyphens(sub_hyphens(sub_non_alnum(lower(value))))
    IN  IF slug = <<>> THEN DEFAULT_SLUG ELSE slug

\* the components of a path: split on "/", empty and "." components dropped
RECURSIVE path_parts(_, _)
path_parts(s, cur) ==
    LET done == IF cur = <<>> \/ cur = <<".">> THEN <<>> ELSE <<cur>>
    IN  IF s = <<>> THEN done
        ELSE IF Head(s) = "/" THEN done \o path_parts(Tail(s), <<>>)
        ELSE path_parts(Tail(s), Append(cur, Head(s)))

\* index of the last "." of a file name, 0 if there is none
last_dot(name) ==
    IF \E i \in DOMAIN name : name[i] = "."
    THEN CHOOSE i \in DOMAIN name :
            name[i] = "." /\ \A j \in DOMAIN name : j > i => name[j] # "."
    ELSE 0

\* PurePath.with_suffix("") on the final component: a suffix starts at the
\* last ".", unless that "." is the first or the last character of the name
strip_suffix(name) ==
    LET i == last_dot(name)
    IN  IF i > 1 /\ i < Len(name) THEN SubSeq(name, 1, i - 1) ELSE name

RECURSIVE join_dotted(_)
join_dotted(parts) ==
    IF parts = <<>> THEN <<>>
    ELSE IF Len(parts) = 1 THEN parts[1]
    ELSE parts[1] \o <<".">> \o join_dotted(Tail(parts))

\* Path(p).with_suffix("").as_posix().replace("/", "."): [raised, value]
\* (a path that begins with exactly two slashes keeps both in as_posix(); no
\* such path is among the documents below)
module_path_of(module_rel_path) ==
    LET parts == path_parts(module_rel_path, <<>>)
        root  == IF Head(module_rel_path) = "/" THEN <<".">> ELSE <<>>
    IN  IF parts = <<>>
        THEN [raised |-> "ValueError", value |-> None]
        ELSE [raised |-> "",
              value  |-> root \o join_dotted(
                  SubSeq(parts, 1, Len(parts) - 1)
                      \o <<strip_suffix(parts[Len(parts)])>>)]

\* a first loop in which the first label of a parameter wins
RECURSIVE translate_labels_first(_, _, _)
translate_labels_first(field_map, raw_inputs, translated) ==
    IF field_map = <<>> THEN translated
    ELSE translate_labels_first(
             Tail(field_map), raw_inputs,
             IF Has(raw_inputs, Head(field_map)[1])
                 /\ ~Has(translated, Head(field_map)[2])
             THEN Put(translated, Head(field_map)[2],
                      Get(raw_inputs, Head(field_map)[1]))
             ELSE translated)

\* a second loop that copies a key although it is already translated
RECURSIVE translate_rest_overwrite(_, _, _)
translate_rest_overwrite(field_map, raw_inputs, translated) ==
    IF raw_inputs = <<>> THEN translated
    ELSE translate_rest_overwrite(
             field_map, Tail(raw_inputs),
             IF ~Has(field_map, Head(raw_inputs)[1])
             THEN Put(translated, Head(raw_inputs)[1], Head(raw_inputs)[2])
             ELSE translated)

\* CalculatorDefinition.translate_inputs
RECURSIVE translate_labels(_, _, _)
translate_labels(field_map, raw_inputs, translated) ==
    IF field_map = <<>> THEN translated
    ELSE LET label       == Head(field_map)[1]
             python_name == Head(field_map)[2]
         IN  translate_labels(
                 Tail(field_map), raw_inputs,
                 IF Has(raw_inputs, label)
                 THEN Put(translated, python_name, Get(raw_inputs, label))
                 ELSE translated)

RECURSIVE translate_rest(_, _, _)
translate_rest(field_map, raw_inputs, translated) ==
    IF raw_inputs = <<>> THEN translated
    ELSE LET key   == Head(raw_inputs)[1]
             value == Head(raw_inputs)[2]
         IN  translate_rest(
                 field_map, Tail(raw_inputs),
                 IF ~Has(field_map, key) /\ ~Has(translated, key)
                 THEN Put(translated, key, value)
                 ELSE translated)

translate_inputs(field_map, raw_inputs) ==
    translate_rest(field_map, raw_inputs,
                   translate_labels(field_map, raw_inputs, <<>>))

\* CalculatorDefinition.list_fields
list_fields(field_map) ==
    [i \in DOMAIN field_map |->
        [label |-> field_map[i][1], python_name |-> field_map[i][2]]]

\* CalculatorRegistry.__init__: the list and the two indices
RECURSIVE index_by(_, _, _)
index_by(calculators, attr, index) ==
    IF calculators = <<>> THEN index
    ELSE index_by(Tail(calculators), attr,
                  Put(index, Head(calculators)[attr], Head(calculators)))

CalculatorRegistry(calculators, instance) ==
    [instance     |-> instance,
     _calculators |-> calculators,
     _by_slug     |-> index_by(calculators, "slug", <<>>),
     _by_id       |-> index_by(calculators, "id", <<>>)]

\* CalculatorRegistry.list
registry_list(registry) == registry._calculators

\* a lookup that falls back to the first definition instead of raising
get_by_slug_or_first(registry, slug) ==
    IF Has(registry._by_slug, slug)
    THEN [raised |-> "", value |-> Get(registry._by_slug, slug),
          message |-> <<>>]
    ELSE IF registry._calculators # <<>>
    THEN [raised |-> "", value |-> registry._calculators[1], message |-> <<>>]
    ELSE [raised |-> "KeyError", value |-> None,
          message |-> <<"Unknown calculator slug '", slug, "'">>]

\* CalculatorRegistry.get_by_slug: [raised, value, message]
get_by_slug(registry, slug) ==
    IF Has(registry._by_slug, slug)
    THEN [raised |-> "", value |-> Get(registry._by_slug, slug),
          message |-> <<>>]
    ELSE [raised |-> "KeyError", value |-> None,
          message |-> <<"Unknown calculator slug '", slug, "'">>]

\* a loader that reads an unreadable document as an empty one
_load_json_or_empty(file) ==
    IF file.status = "ok" THEN [raised |-> "", value |-> file.content]
    ELSE [raised |-> "", value |-> <<>>]

\* _load_json: [raised, value]
_load_json(file) ==
    IF file.status = "missing"
    THEN [raised |-> "FileNotFoundError", value |-> <<>>]
    ELSE IF file.status = "malformed"
    THEN [raised |-> "JSONDecodeError", value |-> <<>>]
    ELSE [raised |-> "", value |-> file.content]

\* the path_by_id comprehension: [raised, value]
RECURSIVE build_path_by_id(_, _)
build_path_by_id(calc_path, path_by_id) ==
    IF calc_path = <<>> THEN [raised |-> "", value |-> path_by_id]
    ELSE LET calculator_name == Head(calc_path)[1]
             entry           == Head(calc_path)[2]
         IN  IF ~Has(entry, K_Calculator_ID)
             THEN build_path_by_id(Tail(calc_path), path_by_id)
             ELSE IF ~Has(entry, K_File_Path)
             THEN [raised |-> "KeyError", value |-> <<>>]
             ELSE build_path_by_id(
                      Tail(calc_path),
                      Put(path_by_id, str(Get(entry, K_Calculator_ID)),
                          [name      |-> calculator_name,
                           file_path |-> Get(entry, K_File_Path)]))

\* path_by_id.get(calculator_id, {}).get(attr)
path_get(path_by_id, calculator_id, attr) ==
    IF Has(path_by_id, calculator_id)
    THEN Get(path_by_id, calculator_id)[attr]
    ELSE None

\* the metadata comprehension: META_KEYS entries under their lower-cased key
RECURSIVE metadata_of(_, _)
metadata_of(entry, metadata) ==
    IF entry = <<>> THEN metadata
    ELSE metadata_of(
             Tail(entry),
             IF lower(Head(entry)[1]) \in META_KEYS
             THEN Put(metadata, lower(Head(entry)[1]), Head(entry)[2])
             ELSE metadata)

\* the field_map comprehension: every other entry, in order
RECURSIVE field_map_of(_)
field_map_of(entry) ==
    IF entry = <<>> THEN <<>>
    ELSE IF lower(Head(entry)[1]) \in META_KEYS THEN field_map_of(Tail(entry))
    ELSE <<Head(entry)>> \o field_map_of(Tail(entry))

\* the skip test without its test of the explanation function
is_incomplete_no_function(module_rel_path, function_name, calculator_name) ==
    ~Truthy(module_rel_path) \/ ~Truthy(calculator_name)

\* the skip test of the build loop
is_incomplete(module_rel_path, function_name, calculator_name) ==
    ~Truthy(module_rel_path) \/ ~Truthy(function_name)
        \/ ~Truthy(calculator_name)

\* slug_counts.get(slug, 0)
count_of(slug_counts, slug) ==
    IF Has(slug_counts, slug) THEN Get(slug_counts, slug) ELSE 0

\* a numbering that counts the occurrences after the first
numbered_slug_after_first(slug, n) ==
    IF n > 1 THEN slug \o <<"-">> \o str_int(n - 1) ELSE slug

\* the slug given to the occurrence numbered n of a candidate slug
numbered_slug(slug, n) ==
    IF n > 1 THEN slug \o <<"-">> \o str_int(n) ELSE slug

\* a loop that counts the slug of an entry before it tests the entry
RECURSIVE build_loop_counting_skipped(_, _, _, _)
build_loop_counting_skipped(name_map, path_by_id, slug_counts, calculators) ==
    IF name_map = <<>> THEN [raised |-> "", value |-> calculators]
    ELSE
    LET calculator_id   == Head(name_map)[1]
        entry           == Head(name_map)[2]
        metadata        == metadata_of(entry, <<>>)
        module_rel_path == Or(path_get(path_by_id, calculator_id, "file_path"),
                              Get(metadata, K_file_path))
        function_name   == Get(metadata, K_explanation_function)
        calculator_name == Or(Get(metadata, K_calculator_name),
                              path_get(path_by_id, calculator_id, "name"))
        module_path     == module_path_of(module_rel_path)
        slug            == _slugify(calculator_name)
        n               == count_of(slug_counts, slug) + 1
    IN  IF is_incomplete(module_rel_path, function_name, calculator_name)
        THEN build_loop_counting_skipped(
                 Tail(name_map), path_by_id, Put(slug_counts, slug, n),
                 calculators)
        ELSE IF module_path.raised # ""
        THEN [raised |-> module_path.raised, value |-> <<>>]
        ELSE build_loop_counting_skipped(
                 Tail(name_map), path_by_id, Put(slug_counts, slug, n),
                 Append(calculators,
                        [id              |-> str(calculator_id),
                         name            |-> calculator_name,
                         slug            |-> numbered_slug(slug, n),
                         module_path     |-> module_path.value,
                         function_name   |-> function_name,
                         calculator_type |-> Get(metadata, K_type),
                         question        |-> Get(metadata, K_question),
                         field_map       |-> field_map_of(entry)]))

\* the loop over name_map.items(): [raised, value]
RECURSIVE build_loop(_, _, _, _)
build_loop(name_map, path_by_id, slug_counts, calculators) ==
    IF name_map = <<>> THEN [raised |-> "", value |-> calculators]
    ELSE
    LET calculator_id   == Head(name_map)[1]
        entry           == Head(name_map)[2]
        metadata        == metadata_of(entry, <<>>)
        module_rel_path == Or(path_get(path_by_id, calculator_id, "file_path"),
                              Get(metadata, K_file_path))
        function_name   == Get(metadata, K_explanation_function)
        calculator_name == Or(Get(metadata, K_calculator_name),
                              path_get(path_by_id, calculator_id, "name"))
        module_path     == module_path_of(module_rel_path)
        slug            == _slugify(calculator_name)
        n               == count_of(slug_counts, slug) + 1
    IN  IF is_incomplete(module_rel_path, function_name, calculator_name)
        THEN build_loop(Tail(name_map), path_by_id, slug_counts, calculators)
        ELSE IF module_path.raised # ""
        THEN [raised |-> module_path.raised, value |-> <<>>]
        ELSE build_loop(
                 Tail(name_map), path_by_id, Put(slug_counts, slug, n),
                 Append(calculators,
                        [id              |-> str(calculator_id),
                         name            |-> calculator_name,
                         slug            |-> numbered_slug(slug, n),
                         module_path     |-> module_path.value,
                         function_name   |-> function_name,
                         calculator_type |-> Get(metadata, K_type),
                         question        |-> Get(metadata, K_question),
                         field_map       |-> field_map_of(entry)]))

\* _build_definitions: [raised, value]
_build_definitions(calc_path_f, name_map_f) ==
    LET calc_path  == _load_json(calc_path_f)
        name_map   == _load_json(name_map_f)
        path_by_id == build_path_by_id(calc_path.value, <<>>)
    IN  IF calc_path.raised # "" THEN [raised |-> calc_path.raised, value |-> <<>>]
        ELSE IF name_map.raised # "" THEN [raised |-> name_map.raised, value |-> <<>>]
        ELSE IF path_by_id.raised # "" THEN path_by_id
        ELSE build_loop(name_map.value, path_by_id.value, <<>>, <<>>)

----------------------------------------------------------------------------
(* app/services/post_processors.py *)
(* A JSON value is a flat sequence: None, <<"True">>, <<"False">>, a number *)
(* as "#" and its digits, a list as "LIST" and its items separated by      *)
(* "SEP", and any other sequence of characters is a str.                   *)

True  == <<"True">>
False == <<"False">>

json_bool(b) == IF b THEN True ELSE False
json_int(n) == <<"#">> \o str_int(n)

is_list(v) == v # <<>> /\ Head(v) = "LIST"
is_number(v) == v # <<>> /\ Head(v) = "#"
is_bool(v) == v = True \/ v = False
is_str(v) == v # None /\ ~is_bool(v) /\ ~is_number(v) /\ ~is_list(v)

\* the items of a list
RECURSIVE split_items(_, _)
split_items(s, cur) ==
    IF s = <<>> THEN <<cur>>
    ELSE IF Head(s) = "SEP" THEN <<cur>> \o split_items(Tail(s), <<>>)
    ELSE split_items(Tail(s), Append(cur, Head(s)))

list_items(v) == IF Len(v) = 1 THEN <<>> ELSE split_items(Tail(v), <<>>)

\* float(v): [raised, kind, n]; kind is "num", "inf" or "nan"
to_float(v) ==
    IF v = None \/ is_list(v)
    THEN [raised |-> "TypeError", kind |-> "", n |-> 0]
    ELSE IF is_bool(v)
    THEN [raised |-> "", kind |-> "num", n |-> IF v = True THEN 1 ELSE 0]
    ELSE IF is_number(v)
    THEN [raised |-> "", kind |-> "num", n |-> int_of(Tail(v))]
    ELSE IF all_digits(v)
    THEN [raised |-> "", kind |-> "num", n |-> int_of(v)]
    ELSE IF lower(v) = <<"i","n","f">>
    THEN [raised |-> "", kind |-> "inf", n |-> 0]
    ELSE IF lower(v) = <<"n","a","n">>
    THEN [raised |-> "", kind |-> "nan", n |-> 0]
    ELSE [raised |-> "ValueError", kind |-> "", n |-> 0]

NoFloat == [raised |-> "", kind |-> "none", n |-> 0]

\* the except clauses of _extract_value
float_or_none(f) == IF f.raised # "" THEN NoFloat ELSE f

\* an extraction that gives 0.0 where the code gives None
extract_value_or_zero(field) ==
    IF (IF is_list(field) /\ list_items(field) # <<>>
        THEN to_float(list_items(field)[1])
        ELSE to_float(field)).raised # ""
    THEN [raised |-> "", kind |-> "num", n |-> 0]
    ELSE IF is_list(field) /\ list_items(field) # <<>>
    THEN to_float(list_items(field)[1])
    ELSE to_float(field)

\* _extract_value: a float, or NoFloat for None
_extract_value(field) ==
    float_or_none(IF is_list(field) /\ list_items(field) # <<>>
                  THEN to_float(list_items(field)[1])
                  ELSE to_float(field))

\* _extract_unit
_extract_unit(field) ==
    IF is_list(field) /\ Len(list_items(field)) > 1
    THEN lower(str(list_items(field)[2]))
    ELSE <<>>

\* bool(value)
py_truthy(value) ==
    IF value = None THEN FALSE
    ELSE IF is_bool(value) THEN value = True
    ELSE IF is_number(value) THEN int_of(Tail(value)) # 0
    ELSE IF is_list(value) THEN list_items(value) # <<>>
    ELSE value # <<>>

\* a coercion that compares the str as it is written
as_bool_case_sensitive(value) ==
    IF is_bool(value) THEN value = True
    ELSE IF is_str(value)
    THEN value \in {<<"t","r","u","e">>, <<"1">>, <<"y","e","s">>}
    ELSE py_truthy(value)

\* _as_bool
_as_bool(value) ==
    IF is_bool(value) THEN value = True
    ELSE IF is_str(value)
    THEN lower(value) \in {<<"t","r","u","e">>, <<"1">>, <<"y","e","s">>}
    ELSE py_truthy(value)

\* x >= c and x < c on a float that is not None
float_ge(x, c) == x.kind = "inf" \/ (x.kind = "num" /\ x.n >= c)
float_lt(x, c) == x.kind = "num" /\ x.n < c

\* a float as a fraction [kind, num, den]; the rounding of float arithmetic is
\* left out
fraction_of(value) == [kind |-> value.kind, num |-> value.n, den |-> 1]

\* (value - 32.0) * (5.0 / 9.0)
fahrenheit_to_celsius(value) ==
    IF value.kind = "num"
    THEN [kind |-> "num", num |-> (value.n - 32) * 5, den |-> 9]
    ELSE fraction_of(value)

\* a conversion that tests the unit for "f" before "c"
celsius_of_f_first(value, unit) ==
    IF value.kind = "none" THEN fraction_of(NoFloat)
    ELSE IF "f" \in Range(unit) THEN fahrenheit_to_celsius(value)
    ELSE fraction_of(value)

\* _convert_temperature_to_celsius on the extracted value and unit
celsius_of(value, unit) ==
    IF value.kind = "none" THEN fraction_of(NoFloat)
    ELSE IF "c" \in Range(unit) THEN fraction_of(value)
    ELSE IF "f" \in Range(unit) THEN fahrenheit_to_celsius(value)
    ELSE fraction_of(value)

\* t < c and t >= c on a temperature that is not None
temp_lt(t, c) == t.kind = "num" /\ t.num < c * t.den
temp_ge(t, c) == t.kind = "inf" \/ (t.kind = "num" /\ t.num >= c * t.den)

\* _convert_temperature_to_celsius
_convert_temperature_to_celsius(field) ==
    celsius_of(_extract_value(field), _extract_unit(field))

\* a tiering whose last threshold is 150 instead of 130
derive_psi_risk_class_150(score, is_class_i) ==
    IF is_class_i
    THEN [risk_class |-> "Risk Class I",
          recommendation |-> "Very low risk. Outpatient care appropriate."]
    ELSE IF score = None
    THEN [risk_class |-> "Unknown",
          recommendation |-> "Score unavailable. Please verify the inputs."]
    ELSE IF int_of(Tail(score)) <= 70
    THEN [risk_class |-> "Risk Class II",
          recommendation |-> "Low risk. Outpatient care appropriate."]
    ELSE IF int_of(Tail(score)) <= 90
    THEN [risk_class |-> "Risk Class III",
          recommendation |->
            "Low risk. Consider outpatient management or brief observation."]
    ELSE IF int_of(Tail(score)) <= 150
    THEN [risk_class |-> "Risk Class IV",
          recommendation |-> "Moderate risk. Recommend inpatient admission."]
    ELSE [risk_class |-> "Risk Class V",
          recommendation |->
            "High risk. Recommend inpatient admission (consider ICU)."]

\* a tiering whose first threshold is tested with < instead of <=
derive_psi_risk_class_lt70(score, is_class_i) ==
    IF is_class_i
    THEN [risk_class |-> "Risk Class I",
          recommendation |-> "Very low risk. Outpatient care appropriate."]
    ELSE IF score = None
    THEN [risk_class |-> "Unknown",
          recommendation |-> "Score unavailable. Please verify the inputs."]
    ELSE IF int_of(Tail(score)) < 70
    THEN [risk_class |-> "Risk Class II",
          recommendation |-> "Low risk. Outpatient care appropriate."]
    ELSE IF int_of(Tail(score)) <= 90
    THEN [risk_class |-> "Risk Class III",
          recommendation |->
            "Low risk. Consider outpatient management or brief observation."]
    ELSE IF int_of(Tail(score)) <= 130
    THEN [risk_class |-> "Risk Class IV",
          recommendation |-> "Moderate risk. Recommend inpatient admission."]
    ELSE [risk_class |-> "Risk Class V",
          recommendation |->
            "High risk. Recommend inpatient admission (consider ICU)."]

\* _derive_psi_risk_class; score is None or a number
_derive_psi_risk_class(score, is_class_i) ==
    IF is_class_i
    THEN [risk_class |-> "Risk Class I",
          recommendation |-> "Very low risk. Outpatient care appropriate."]
    ELSE IF score = None
    THEN [risk_class |-> "Unknown",
          recommendation |-> "Score unavailable. Please verify the inputs."]
    ELSE IF int_of(Tail(score)) <= 70
    THEN [risk_class |-> "Risk Class II",
          recommendation |-> "Low risk. Outpatient care appropriate."]
    ELSE IF int_of(Tail(score)) <= 90
    THEN [risk_class |-> "Risk Class III",
          recommendation |->
            "Low risk. Consider outpatient management or brief observation."]
    ELSE IF int_of(Tail(score)) <= 130
    THEN [risk_class |-> "Risk Class IV",
          recommendation |-> "Moderate risk. Recommend inpatient admission."]
    ELSE [risk_class |-> "Risk Class V",
          recommendation |->
            "High risk. Recommend inpatient admission (consider ICU)."]

K_Answer == <<"A","n","s","w","e","r">>
K_Explanation == <<"E","x","p","l","a","n","a","t","i","o","n">>
K_age == <<"a","g","e">>
K_heart_rate == <<"h","e","a","r","t","_","r","a","t","e">>
K_respiratory_rate ==
    <<"r","e","s","p","i","r","a","t","o","r","y","_","r","a","t","e">>
K_sys_bp == <<"s","y","s","_","b","p">>
K_temperature == <<"t","e","m","p","e","r","a","t","u","r","e">>
K_nursing_home_resident ==
    <<"n","u","r","s","i","n","g","_","h","o","m","e","_",
      "r","e","s","i","d","e","n","t">>
K_altered_mental_status ==
    <<"a","l","t","e","r","e","d","_","m","e","n","t","a","l","_",
      "s","t","a","t","u","s">>
K_comorbidities == {
    <<"n","e","o","p","l","a","s","t","i","c","_","d","i","s","e","a","s","e">>,
    <<"l","i","v","e","r","_","d","i","s","e","a","s","e">>,
    <<"c","h","f">>,
    <<"c","e","r","e","b","r","o","v","a","s","c","u","l","a","r","_",
      "d","i","s","e","a","s","e">>,
    <<"r","e","n","a","l","_","d","i","s","e","a","s","e">> }

\* calculator_implementations.age_conversion: the age in years of a bare
\* number or of a [value, unit] pair; raises on anything else
age_conversion(age) ==
    IF is_bool(age) THEN NoFloat ELSE _extract_value(age)

\* a rounding whose except clause catches nothing
rounded_score_uncaught(f) ==
    IF f.raised # "" THEN [raised |-> f.raised, value |-> None]
    ELSE IF f.kind = "nan" THEN [raised |-> "ValueError", value |-> None]
    ELSE IF f.kind = "inf" THEN [raised |-> "OverflowError", value |-> None]
    ELSE [raised |-> "", value |-> json_int(f.n)]

\* int(round(f)) and the except clause around it: [raised, value]; round
\* raises ValueError on nan, which is caught, and OverflowError on inf
rounded_score(f) ==
    IF f.raised # "" \/ f.kind = "nan" THEN [raised |-> "", value |-> None]
    ELSE IF f.kind = "inf" THEN [raised |-> "OverflowError", value |-> None]
    ELSE [raised |-> "", value |-> json_int(f.n)]

\* the score_value of _psi_processor: [raised, value]
psi_score_value(raw_result) == rounded_score(to_float(Get(raw_result, K_Answer)))

\* any(exam_findings) of _psi_processor
any_exam_finding(altered_mental_status, respiratory_rate, systolic_bp, temp_celsius, heart_rate) ==
    \/ py_truthy(altered_mental_status)
    \/ respiratory_rate.kind # "none" /\ float_ge(respiratory_rate, 30)
    \/ systolic_bp.kind # "none" /\ float_lt(systolic_bp, 90)
    \/ temp_celsius.kind # "none"
          /\ (temp_lt(temp_celsius, 35) \/ temp_ge(temp_celsius, 40))
    \/ heart_rate.kind # "none" /\ float_ge(heart_rate, 125)

\* the age test of is_class_i
age_at_most_50(age_years) == age_years.kind = "num" /\ age_years.n <= 50

\* the is_class_i of _psi_processor
psi_is_class_i(inputs) ==
    /\ age_at_most_50(IF Has(inputs, K_age)
                      THEN age_conversion(Get(inputs, K_age))
                      ELSE NoFloat)
    /\ ~_as_bool(Get(inputs, K_nursing_home_resident))
    /\ ~\E flag \in K_comorbidities : _as_bool(Get(inputs, flag))
    /\ ~any_exam_finding(
            Get(inputs, K_altered_mental_status),
            _extract_value(Get(inputs, K_respiratory_rate)),
            _extract_value(Get(inputs, K_sys_bp)),
            _convert_temperature_to_celsius(Get(inputs, K_temperature)),
            _extract_value(Get(inputs, K_heart_rate)))

\* the dict _psi_processor returns; its keys are TLA+ strings
psi_fields(score_value, is_class_i, classification) == <<
    <<"score", IF is_class_i THEN None ELSE score_value>>,
    <<"raw_score", score_value>>,
    <<"risk_class", classification.risk_class>>,
    <<"recommendation", classification.recommendation>>,
    <<"is_class_i", json_bool(is_class_i)>> >>

psi_result(score_value, is_class_i) ==
    IF score_value.raised # ""
    THEN [raised |-> score_value.raised, value |-> <<>>]
    ELSE [raised |-> "",
          value |-> psi_fields(
              score_value.value, is_class_i,
              _derive_psi_risk_class(score_value.value, is_class_i))]

\* _psi_processor: [raised, value]
_psi_processor(inputs, raw_result) ==
    psi_result(psi_score_value(raw_result), psi_is_class_i(inputs))

PSI_SLUG ==
    <<"p","s","i","-","s","c","o","r","e","-","p","n","e","u","m","o","n","i","a",
      "-","s","e","v","e","r","i","t","y","-","i","n","d","e","x","-","f","o","r",
      "-","c","a","p">>

\* the slugs POST_PROCESSORS holds
POST_PROCESSORS == {PSI_SLUG}

\* a lookup that runs the processor whatever the slug
apply_post_processors_any_slug(calculator, inputs, raw_result) ==
    _psi_processor(inputs, raw_result)

\* apply_post_processors: [raised, value]; value is None without a processor
apply_post_processors(calculator, inputs, raw_result) ==
    IF calculator.slug \notin POST_PROCESSORS
    THEN [raised |-> "", value |-> None]
    ELSE _psi_processor(inputs, raw_result)

----------------------------------------------------------------------------
(* app/services/calculator_runner.py *)

\* what importlib can import: module_path -> the functions the module defines
MODULES == <<
    <<<<"p","s","i">>, {<<"f">>}>>,
    <<<<"d",".","b">>, {<<"f">>}>> >>

NoException == [class |-> "", origin |-> "", cause |-> "", arg |-> <<>>]

Raise(class, origin, cause, arg) ==
    [class |-> class, origin |-> origin, cause |-> cause, arg |-> arg]

\* one cache key for every definition
cache_key_shared(calculator) == <<>>

\* cache_key of _get_callable
cache_key(calculator) == <<calculator.module_path, calculator.function_name>>

\* a resolution that never looks the function up on the module
import_function_unchecked(calculator) ==
    IF ~Has(MODULES, calculator.module_path)
    THEN [raised |-> Raise("ImportError", "resolve", "", calculator.module_path),
          value |-> <<>>]
    ELSE [raised |-> NoException, value |-> cache_key(calculator)]

\* a resolution that yields another callable for each definition
import_function_per_definition(calculator) ==
    IF ~Has(MODULES, calculator.module_path)
    THEN [raised |-> Raise("ImportError", "resolve", "", calculator.module_path),
          value |-> <<>>]
    ELSE IF calculator.function_name \notin Get(MODULES, calculator.module_path)
    THEN [raised |-> Raise("AttributeError", "resolve", "",
                           calculator.function_name),
          value |-> <<>>]
    ELSE [raised |-> NoException,
          value |-> <<calculator.module_path, calculator.function_name,
                      calculator.slug>>]

\* importlib.import_module and getattr: [raised, value]
import_function(calculator) ==
    IF ~Has(MODULES, calculator.module_path)
    THEN [raised |-> Raise("ImportError", "resolve", "", calculator.module_path),
          value |-> <<>>]
    ELSE IF calculator.function_name \notin Get(MODULES, calculator.module_path)
    THEN [raised |-> Raise("AttributeError", "resolve", "",
                           calculator.function_name),
          value |-> <<>>]
    ELSE [raised |-> NoException, value |-> cache_key(calculator)]

\* a type test that accepts every return value
is_anything(returned) == TRUE

\* isinstance(raw_result, dict)
is_dict(returned) == returned.type = "dict"

\* a response whose answer and explanation are taken from each other's key
base_response_swapped(calculator, raw_result) == <<
    <<"calculator_id", calculator.id>>,
    <<"calculator_slug", calculator.slug>>,
    <<"calculator_name", calculator.name>>,
    <<"answer", Get(raw_result, K_Explanation)>>,
    <<"explanation", Get(raw_result, K_Answer)>>,
    <<"raw_response", raw_result>> >>

\* the response dict before post-processing; its keys are TLA+ strings
base_response(calculator, raw_result) == <<
    <<"calculator_id", calculator.id>>,
    <<"calculator_slug", calculator.slug>>,
    <<"calculator_name", calculator.name>>,
    <<"answer", Get(raw_result, K_Answer)>>,
    <<"explanation", Get(raw_result, K_Explanation)>>,
    <<"raw_response", raw_result>> >>

\* dict.update
RECURSIVE update(_, _)
update(d, other) ==
    IF other = <<>> THEN d
    ELSE update(Put(d, Head(other)[1], Head(other)[2]), Tail(other))

\* response.update(apply_post_processors(...) or {}): [raised, value, post_ran]
merge_post(calculator, response, post) ==
    IF post.raised # ""
    THEN [raised |-> Raise(post.raised, "post_processor", "", <<>>),
          value |-> <<>>, post_ran |-> TRUE]
    ELSE [raised |-> NoException,
          value |-> update(response,
                           IF post.value = None THEN <<>> ELSE post.value),
          post_ran |-> calculator.slug \in POST_PROCESSORS]

\* execute_calculator from the call of the resolved callable on; `outcome` is
\* what the callable does with python_payload: [raised, value, post_ran]
execute_call(calculator, python_payload, outcome) ==
    IF outcome.kind = "raise"
    THEN [raised |-> outcome.exc, value |-> <<>>, post_ran |-> FALSE]
    ELSE IF ~is_dict(outcome)
    THEN [raised |-> Raise("ValueError", "execute", "", calculator.slug),
          value |-> <<>>, post_ran |-> FALSE]
    ELSE merge_post(calculator, base_response(calculator, outcome.value),
                    apply_post_processors(calculator, python_payload,
                                          outcome.value))

----------------------------------------------------------------------------
(* app/routes/calculators.py *)

\* _serialize_summary
_serialize_summary(calculator) ==
    [id |-> calculator.id, slug |-> calculator.slug, name |-> calculator.name,
     type |-> calculator.calculator_type]

\* _serialize_detail
_serialize_detail(calculator) ==
    [id |-> calculator.id, slug |-> calculator.slug, name |-> calculator.name,
     type |-> calculator.calculator_type, question |-> calculator.question,
     fields |-> list_fields(calculator.field_map)]

\* the except clauses of run_calculator around execute_calculator
http_of(exc) ==
    IF exc.class = "KeyError"
    THEN [status |-> 400, text |-> "Missing required field: ", arg |-> exc.arg]
    ELSE [status |-> 500, text |-> "Calculator failed: ", arg |-> exc.arg]

\* the payload test of run_calculator
payload_rejected(payload) == payload = <<>>

----------------------------------------------------------------------------
(* Metadata documents the builder is run on *)

MaxEntries == 3

S_f     == <<"f">>
S_m_py  == <<"m",".","p","y">>
S_d_m_py == <<"d","/","m",".","p","y">>

\* values of the field-mapping index (name_to_python.json), without their key
EntryPool == {
    <<<<K_Calculator_Name, <<"A">>>>, <<K_Explanation_Function, S_f>>,
      <<K_File_Path, S_d_m_py>>>>,
    <<<<K_Calculator_Name, <<"a">>>>, <<K_Explanation_Function, S_f>>,
      <<K_File_Path, S_m_py>>, <<<<"A","g","e">>, <<"a","g","e">>>>>>,
    <<<<K_Calculator_Name, <<"A","-","2">>>>, <<K_Explanation_Function, S_f>>,
      <<K_File_Path, S_m_py>>>>,
    <<<<K_calculator_name, <<"a"," ","!">>>>, <<K_Explanation_Function, S_f>>,
      <<K_File_Path, S_m_py>>>>,
    <<<<K_Calculator_Name, <<"!">>>>, <<K_Explanation_Function, S_f>>,
      <<K_File_Path, S_m_py>>>>,
    <<<<K_Calculator_Name, <<>>>>, <<K_Explanation_Function, S_f>>,
      <<K_File_Path, S_m_py>>>>,
    <<<<K_Explanation_Function, S_f>>, <<K_File_Path, S_m_py>>>>,
    <<<<K_Calculator_Name, <<"A">>>>, <<K_File_Path, S_m_py>>>>,
    <<<<K_Calculator_Name, <<"A">>>>, <<K_Explanation_Function, <<>>>>,
      <<K_File_Path, S_m_py>>>>,
    <<<<K_Calculator_Name, <<"A">>>>, <<K_Explanation_Function, S_f>>>>,
    <<<<K_Calculator_Name, <<"A">>>>, <<K_Explanation_Function, S_f>>,
      <<K_File_Path, None>>>>,
    <<<<K_Calculator_Name, <<"B">>>>, <<K_Explanation_Function, S_f>>,
      <<K_File_Path, <<".">>>>>> }

\* the path index (calc_path.json)
PathPool == {
    <<>>,
    <<<<<<"P">>, <<<<K_Calculator_ID, <<"#","1">>>>, <<K_File_Path, S_d_m_py>>>>>>>>,
    <<<<<<"a","-","2">>, <<<<K_Calculator_ID, <<"2">>>>, <<K_File_Path, <<>>>>>>>>,
      <<<<"Q">>, <<<<K_File_Path, S_m_py>>>>>>>>,
    <<<<<<"P">>, <<<<K_Calculator_ID, <<"#","1">>>>>>>>>> }

\* the key of the i-th entry of a JSON object: "1", "2", "01", "4", ...
EntryKey(i) == IF i = 3 THEN <<"0","1">> ELSE str_int(i)

\* a JSON object of n entries
Keyed(values) == [i \in DOMAIN values |-> <<EntryKey(i), values[i]>>]

NameMaps ==
    UNION {{Keyed(v) : v \in [1..n -> EntryPool]} : n \in 0..MaxEntries}

\* two entries whose names differ by case and punctuation only
QtcNameMap == Keyed(<<
    <<<<K_Calculator_Name,
        <<"Q","T","c"," ","B","a","z","e","t","t"," ",
          "C","a","l","c","u","l","a","t","o","r">>>>,
      <<K_Explanation_Function, S_f>>, <<K_File_Path, S_m_py>>>>,
    <<<<K_Calculator_Name,
        <<"q","t","c","-","b","a","z","e","t","t",":"," ",
          "C","A","L","C","U","L","A","T","O","R">>>>,
      <<K_Explanation_Function, S_f>>, <<K_File_Path, S_m_py>>>> >>)

QTC_SLUG == <<"q","t","c","-","b","a","z","e","t","t","-",
              "c","a","l","c","u","l","a","t","o","r">>

File(status, content) == [status |-> status, content |-> content]

----------------------------------------------------------------------------
(* Building the registry once, single-threaded, on any metadata *)

InitBuild ==
    /\ calc_path_file \in {File("ok", c) : c \in PathPool}
    /\ name_map_file \in {File("ok", c) : c \in NameMaps \cup {QtcNameMap}}
    /\ registries = <<>>
    /\ registry_cache = <<>>
    /\ callable_cache = <<>>
    /\ builds = 0
    /\ req = <<>>
    /\ out = [op |-> "", raised |-> "", value |-> <<>>]

\* get_registry() on an empty lru_cache
BuildRegistry ==
    /\ out.op = ""
    /\ LET built == _build_definitions(calc_path_file, name_map_file)
       IN  /\ registries' =
                IF built.raised = ""
                THEN <<CalculatorRegistry(built.value, 1)>>
                ELSE <<>>
           /\ registry_cache' = IF built.raised = "" THEN <<1>> ELSE <<>>
           /\ out' = [op |-> "get_registry", raised |-> built.raised,
                      value |-> <<>>]
    /\ builds' = builds + 1
    /\ UNCHANGED <<calc_path_file, name_map_file, callable_cache, req>>

\* get_registry().list() once the registry is cached
ListRegistry ==
    /\ out.op = "get_registry"
    /\ registry_cache # <<>>
    /\ out' = [op |-> "list", raised |-> "",
               value |-> registry_list(registries[registry_cache[1]])]
    /\ UNCHANGED <<calc_path_file, name_map_file, registries, registry_cache,
                   callable_cache, builds, req>>

NextBuild == BuildRegistry \/ ListRegistry

SpecBuild == InitBuild /\ [][NextBuild]_vars

\* the definitions of the cached registry
Built ==
    IF registry_cache = <<>> THEN <<>>
    ELSE registries[registry_cache[1]]._calculators

\* C1: after a build, no two definitions of the registry have the same slug
C1_SlugsUnique ==
    \A i, j \in DOMAIN Built : i # j => Built[i].slug # Built[j].slug

\* C18: after a build, no two definitions of the registry have the same id,
\* and the index by id holds every definition
C18_IdsUnique ==
    /\ \A i, j \in DOMAIN Built : i # j => Built[i].id # Built[j].id
    /\ registry_cache # <<>>
          => Len(registries[registry_cache[1]]._by_id) = Len(Built)

\* the entries keyed "1" and "01" were both registered
C18_Witness ==
    \E i, j \in DOMAIN Built :
        Built[i].id = <<"1">> /\ Built[j].id = <<"0","1">>

\* the number of the definition i among the definitions, up to it, whose
\* names normalise to the same slug
Occurrence(i) ==
    Cardinality({j \in 1..i : _slugify(Built[j].name) = _slugify(Built[i].name)})

\* C20: the first definition whose name normalises to a slug s has the slug s
\* and the N-th such definition has s-N; the two names that normalise to
\* qtc-bazett-calculator get qtc-bazett-calculator and qtc-bazett-calculator-2
C20_NthOccurrenceSuffix ==
    /\ \A i \in DOMAIN Built :
          Built[i].slug =
              IF Occurrence(i) = 1 THEN _slugify(Built[i].name)
              ELSE _slugify(Built[i].name) \o <<"-">> \o str_int(Occurrence(i))
    /\ (registry_cache # <<>> /\ name_map_file.content = QtcNameMap)
          => /\ Len(Built) = 2
             /\ Built[1].slug = QTC_SLUG
             /\ Built[2].slug = QTC_SLUG \o <<"-","2">>

\* the two names that normalise to qtc-bazett-calculator were registered
C20_Witness ==
    /\ registry_cache # <<>>
    /\ name_map_file.content = QtcNameMap
    /\ Len(Built) = 2

\* the values an entry of the field-mapping index holds under a metadata key,
\* whatever the key's letter case
SourceValues(entry, key) ==
    {entry[j][2] : j \in {k \in DOMAIN entry : lower(entry[k][1]) = key}}

\* the entries of the path index that carry the identity
PathEntries(calculator_id) ==
    {calc_path_file.content[j] : j \in
        {k \in DOMAIN calc_path_file.content :
            /\ Has(calc_path_file.content[k][2], K_Calculator_ID)
            /\ str(Get(calc_path_file.content[k][2], K_Calculator_ID))
                   = calculator_id}}

\* the file path, the explanation function or the calculator name of the
\* identity is missing or empty in both metadata documents
SourceIncomplete(calculator_id, entry) ==
    \/ /\ \A v \in SourceValues(entry, K_file_path) : ~Truthy(v)
       /\ \A p \in PathEntries(calculator_id) : ~Truthy(Get(p[2], K_File_Path))
    \/ \A v \in SourceValues(entry, K_explanation_function) : ~Truthy(v)
    \/ /\ \A v \in SourceValues(entry, K_calculator_name) : ~Truthy(v)
       /\ \A p \in PathEntries(calculator_id) : ~Truthy(p[1])

\* C6: every definition list() returns has a non-empty name, module_path and
\* function_name, and an identity whose file path, explanation function or
\* calculator name is missing or empty in the metadata has no definition
C6_NoPartialDefinition ==
    out.op = "list" =>
        /\ \A i \in DOMAIN out.value :
              /\ Truthy(out.value[i].name)
              /\ Truthy(out.value[i].module_path)
              /\ Truthy(out.value[i].function_name)
        /\ \A k \in DOMAIN name_map_file.content :
              SourceIncomplete(name_map_file.content[k][1],
                               name_map_file.content[k][2])
                  => \A i \in DOMAIN out.value :
                        out.value[i].id # name_map_file.content[k][1]

\* some entry of the field-mapping index or of the path index lacks a file
\* path, an explanation function or a calculator name
SomeEntryIncomplete ==
    \/ \E k \in DOMAIN name_map_file.content :
          SourceIncomplete(name_map_file.content[k][1],
                           name_map_file.content[k][2])
    \/ \E k \in DOMAIN calc_path_file.content :
          ~Truthy(Get(calc_path_file.content[k][2], K_File_Path))

\* every file path the documents hold names a file
PathsNameAFile ==
    /\ \A k \in DOMAIN name_map_file.content :
          \A v \in SourceValues(name_map_file.content[k][2], K_file_path) :
              Truthy(v) => module_path_of(v).raised = ""
    /\ \A k \in DOMAIN calc_path_file.content :
          Truthy(Get(calc_path_file.content[k][2], K_File_Path))
          => module_path_of(Get(calc_path_file.content[k][2],
                                K_File_Path)).raised = ""

\* C19: on metadata in which some entries lack a file path, an explanation
\* function or a calculator name (and every file path given names a file), the
\* build raises nothing and every complete entry is registered
C19_IncompleteEntriesSkipped ==
    (out.op = "get_registry" /\ SomeEntryIncomplete /\ PathsNameAFile)
    => /\ out.raised = ""
       /\ \A k \in DOMAIN name_map_file.content :
             ~SourceIncomplete(name_map_file.content[k][1],
                               name_map_file.content[k][2])
             => \E i \in DOMAIN Built :
                   Built[i].id = name_map_file.content[k][1]

\* list() returned definitions for metadata that holds an incomplete identity
C6_Witness ==
    /\ out.op = "list"
    /\ out.value # <<>>
    /\ \E k \in DOMAIN name_map_file.content :
          SourceIncomplete(name_map_file.content[k][1],
                           name_map_file.content[k][2])

----------------------------------------------------------------------------
(* translate_inputs on any field map and any raw input *)

MaxFields == 2

TranslateLabels == {<<"A">>, <<"B">>, <<"x">>}
TranslateParams == {<<"x">>, <<"y">>}
TranslateKeys   == <<<<"A">>, <<"B">>, <<"x">>, <<"z">>>>
TranslateValues == {<<"#","1">>, <<"#","2">>}

\* dicts label -> parameter name of at most MaxFields entries
FieldMaps ==
    UNION {{fm \in [1..n -> TranslateLabels \X TranslateParams] :
                \A i, j \in 1..n : i # j => fm[i][1] # fm[j][1]}
           : n \in 0..MaxFields}

\* the entries of a dict whose key is chosen
RECURSIVE SelectKeys(_, _)
SelectKeys(d, keys) ==
    IF d = <<>> THEN <<>>
    ELSE IF Head(d)[1] \in keys THEN <<Head(d)>> \o SelectKeys(Tail(d), keys)
    ELSE SelectKeys(Tail(d), keys)

\* dicts over TranslateKeys
RawInputs ==
    {SelectKeys([i \in DOMAIN TranslateKeys |-> <<TranslateKeys[i], v[i]>>],
                keys) :
        v \in [DOMAIN TranslateKeys -> TranslateValues],
        keys \in SUBSET Range(TranslateKeys)}

InitTranslate ==
    /\ calc_path_file = File("ok", <<>>)
    /\ name_map_file = File("ok", <<>>)
    /\ registries = <<>>
    /\ registry_cache = <<>>
    /\ callable_cache = <<>>
    /\ builds = 0
    /\ req = <<>>
    /\ \E fm \in FieldMaps, raw \in RawInputs :
          out = [op |-> "", field_map |-> fm, raw_inputs |-> raw,
                 value |-> <<>>]

\* definition.translate_inputs(raw_inputs)
Translate ==
    /\ out.op = ""
    /\ out' = [out EXCEPT !.op = "translate_inputs",
                          !.value = translate_inputs(out.field_map,
                                                     out.raw_inputs)]
    /\ UNCHANGED <<calc_path_file, name_map_file, registries, registry_cache,
                   callable_cache, builds, req>>

NextTranslate == Translate

SpecTranslate == InitTranslate /\ [][NextTranslate]_vars

Translated == out.op = "translate_inputs"

\* k is the parameter name of a label that is a key of the raw input
MappedOnto(k) ==
    \E i \in DOMAIN out.field_map :
        out.field_map[i][2] = k /\ Has(out.raw_inputs, out.field_map[i][1])

\* C4 as stated: every key of the raw input that is not a label is in the
\* output with its raw value
C4_UnmappedKeysKeepValue ==
    Translated =>
        \A k \in Keys(out.raw_inputs) :
            ~Has(out.field_map, k)
            => Has(out.value, k) /\ Get(out.value, k) = Get(out.raw_inputs, k)

\* C4: every key of the raw input that is not a label is a key of the output;
\* its value is the raw value, unless the key is the parameter name of a label
\* that is also in the raw input, and then it is the value of such a label
C4_UnmappedKeysPassThrough ==
    Translated =>
        \A k \in Keys(out.raw_inputs) :
            ~Has(out.field_map, k)
            => /\ Has(out.value, k)
               /\ IF MappedOnto(k)
                  THEN \E i \in DOMAIN out.field_map :
                          /\ out.field_map[i][2] = k
                          /\ Has(out.raw_inputs, out.field_map[i][1])
                          /\ Get(out.value, k)
                                = Get(out.raw_inputs, out.field_map[i][1])
                  ELSE Get(out.value, k) = Get(out.raw_inputs, k)

\* a raw input held a label and, with another value, that label's parameter
C4_Witness ==
    /\ Translated
    /\ \E k \in Keys(out.raw_inputs) :
          /\ ~Has(out.field_map, k)
          /\ MappedOnto(k)
          /\ Get(out.value, k) # Get(out.raw_inputs, k)
    /\ \E k \in Keys(out.raw_inputs) : ~Has(out.field_map, k) /\ ~MappedOnto(k)

\* C5 as stated: for every pair of the field map whose label is in the raw
\* input, the output holds the label's value under the parameter name
C5_EveryLabelCopied ==
    Translated =>
        \A i \in DOMAIN out.field_map :
            Has(out.raw_inputs, out.field_map[i][1])
            => Get(out.value, out.field_map[i][2])
                  = Get(out.raw_inputs, out.field_map[i][1])

\* C5: for every pair of the field map whose label is in the raw input, the
\* output holds the label's value under the parameter name, unless a later
\* pair with the same parameter name has its label in the raw input too
C5_LastLabelCopied ==
    Translated =>
        \A i \in DOMAIN out.field_map :
            (/\ Has(out.raw_inputs, out.field_map[i][1])
             /\ ~\E j \in DOMAIN out.field_map :
                    /\ j > i
                    /\ out.field_map[j][2] = out.field_map[i][2]
                    /\ Has(out.raw_inputs, out.field_map[j][1]))
            => /\ Has(out.value, out.field_map[i][2])
               /\ Get(out.value, out.field_map[i][2])
                     = Get(out.raw_inputs, out.field_map[i][1])

\* two labels of one parameter were both in the raw input, with two values
C5_Witness ==
    /\ Translated
    /\ \E i, j \in DOMAIN out.field_map :
          /\ i < j
          /\ out.field_map[i][2] = out.field_map[j][2]
          /\ Has(out.raw_inputs, out.field_map[i][1])
          /\ Has(out.raw_inputs, out.field_map[j][1])
          /\ Get(out.raw_inputs, out.field_map[i][1])
                # Get(out.raw_inputs, out.field_map[j][1])

----------------------------------------------------------------------------
(* The service: concurrent list / get / run requests on one process *)

MaxRequests == 2

Requests == 1..MaxRequests

S_Age == <<"A","g","e">>

PSI_NAME ==
    <<"P","S","I"," ","S","c","o","r","e",":"," ","P","n","e","u","m","o","n","i",
      "a"," ","S","e","v","e","r","i","t","y"," ","I","n","d","e","x"," ","f","o",
      "r"," ","C","A","P">>

\* calc_path.json and name_to_python.json of the deployment
ServiceCalcPath == <<
    <<<<"B">>, <<<<K_Calculator_ID, <<"#","2">>>>,
                <<K_File_Path, <<"d","/","b",".","p","y">>>>>>>> >>

ServiceNameMap == <<
    <<<<"1">>, <<<<K_Calculator_Name, PSI_NAME>>,
                <<K_Explanation_Function, <<"f">>>>,
                <<K_File_Path, <<"p","s","i",".","p","y">>>>,
                <<S_Age, K_age>>>>>>,
    <<<<"2">>, <<<<K_Explanation_Function, <<"f">>>>, <<S_Age, K_age>>>>>>,
    <<<<"3">>, <<<<K_Calculator_Name, <<"C">>>>,
                <<K_Explanation_Function, <<"f">>>>,
                <<K_File_Path, <<"c",".","p","y">>>>>>>>,
    <<<<"4">>, <<<<K_Calculator_Name, <<"D">>>>,
                <<K_Explanation_Function, <<"g">>>>,
                <<K_File_Path, <<"d","/","b",".","p","y">>>>>>>>,
    <<<<"5">>, <<<<K_Calculator_Name, <<"E">>>>,
                <<K_File_Path, <<"e",".","p","y">>>>>>>>,
    <<<<"6">>, <<<<K_Calculator_Name, <<"F">>>>,
                <<K_Explanation_Function, <<"f">>>>,
                <<K_File_Path, <<"p","s","i",".","p","y">>>>,
                <<S_Age, K_age>>>>>> >>

FileStatus == {"ok", "missing", "malformed"}

RequestSlugs == {PSI_SLUG, <<"c">>, <<"d">>, <<"z","z">>}

Payloads == {<<>>, <<<<S_Age, <<"#","4","5">>>>>>}

\* the requests that arrive: list, get and run
Arrivals ==
    {[op |-> "list", slug |-> <<>>, payload |-> <<>>]}
    \cup {[op |-> "get", slug |-> sl, payload |-> <<>>] :
            sl \in {PSI_SLUG, <<"z","z">>}}
    \cup {[op |-> "run", slug |-> sl, payload |-> pl] :
            sl \in RequestSlugs, pl \in Payloads \ {<<>>}}
    \cup {[op |-> "run", slug |-> sl, payload |-> <<>>] :
            sl \in {PSI_SLUG, <<"z","z">>}}

ReturnValues == {
    [type |-> "dict",
     value |-> <<<<K_Answer, <<"#","9","5">>>>, <<K_Explanation, <<"e">>>>>>],
    [type |-> "dict",
     value |-> <<<<K_Answer, <<"i","n","f">>>>, <<K_Explanation, <<"e">>>>>>],
    [type |-> "list",
     value |-> <<<<K_Answer, <<"#","9","5">>>>, <<K_Explanation, <<"e">>>>>>] }

\* what a calculator callable may do with its argument
CallableOutcomes(python_payload) ==
    {[kind |-> "return", type |-> r.type, value |-> r.value,
      exc |-> NoException] : r \in ReturnValues}
    \cup
    {[kind |-> "raise", type |-> "", value |-> <<>>,
      exc |-> Raise("KeyError", "callable", "missing_input", k)] :
        k \in {K_age} \ Keys(python_payload)}
    \cup
    {[kind |-> "raise", type |-> "", value |-> <<>>,
      exc |-> Raise(c, "callable", "internal", <<>>)] :
        c \in {"KeyError", "ZeroDivisionError"}}

Idle ==
    [pc |-> "idle", op |-> "", slug |-> <<>>, payload |-> <<>>,
     registry |-> <<>>, calculator |-> <<>>, python_payload |-> <<>>,
     callable |-> <<>>, status |-> 0, text |-> "", arg |-> <<>>,
     body |-> <<>>, exc |-> NoException, returned |-> "",
     built |-> FALSE, resolved |-> 0, stored |-> FALSE, invoked |-> FALSE,
     post_ran |-> FALSE, outcome |-> <<>>]

Init ==
    /\ calc_path_file \in {File(st, ServiceCalcPath) : st \in FileStatus}
    /\ name_map_file \in {File(st, ServiceNameMap) : st \in FileStatus}
    /\ registries = <<>>
    /\ registry_cache = <<>>
    /\ callable_cache = <<>>
    /\ builds = 0
    /\ req = [t \in Requests |-> Idle]
    /\ out = [op |-> "", raised |-> "", value |-> <<>>]

\* the handler ends with an HTTP response
Respond(r, status, text, arg, body) ==
    [r EXCEPT !.pc = "done", !.status = status, !.text = text, !.arg = arg,
              !.body = body]

\* the not-found response of get_calculator and run_calculator
RespondNotFound(r, found) ==
    Respond([r EXCEPT !.exc = Raise(found.raised, "get_by_slug", "", r.slug)],
            404, found.message[1], found.message[2], <<>>)

\* list_calculators after get_registry
handle_list(r, calculators) ==
    Respond(r, 200, "", <<>>,
            [i \in DOMAIN calculators |-> _serialize_summary(calculators[i])])

\* get_calculator after get_registry
handle_get(r, found) ==
    IF found.raised # "" THEN RespondNotFound(r, found)
    ELSE Respond([r EXCEPT !.calculator = <<found.value>>],
                 200, "", <<>>, <<_serialize_detail(found.value)>>)

\* execute_calculator up to the cache lookup of _get_callable
execute_lookup(r, calculator, cache) ==
    [r EXCEPT
        !.calculator = <<calculator>>,
        !.python_payload = translate_inputs(calculator.field_map, r.payload),
        !.callable =
            IF Has(cache, cache_key(calculator))
            THEN <<Get(cache, cache_key(calculator))>> ELSE <<>>,
        !.pc = IF Has(cache, cache_key(calculator)) THEN "call" ELSE "resolve"]

\* run_calculator after get_registry
handle_run(r, found, cache) ==
    IF found.raised # "" THEN RespondNotFound(r, found)
    ELSE execute_lookup(r, found.value, cache)

\* the handler from the return of get_registry to its next read or write of
\* the callable cache
handle(r, registry, cache) ==
    IF r.op = "list" THEN handle_list(r, registry_list(registry))
    ELSE IF r.op = "get" THEN handle_get(r, get_by_slug(registry, r.slug))
    ELSE handle_run(r, get_by_slug(registry, r.slug), cache)

\* a request arrives (requests are numbered in the order they arrive):
\* run_calculator rejects an empty payload at once; the others call
\* get_registry(), and on a hit of its lru_cache go on with the cached registry
Start(t, arrival) ==
    /\ req[t].pc = "idle"
    /\ \A u \in Requests : u < t => req[u].pc # "idle"
    /\ req' = [req EXCEPT ![t] =
          IF arrival.op = "run" /\ payload_rejected(arrival.payload)
          THEN Respond(
                 [@ EXCEPT !.op = arrival.op, !.slug = arrival.slug,
                           !.payload = arrival.payload],
                 400,
                 "Request body must be a JSON object with calculator inputs.",
                 <<>>, <<>>)
          ELSE IF registry_cache # <<>>
          THEN handle([@ EXCEPT !.op = arrival.op, !.slug = arrival.slug,
                                !.payload = arrival.payload,
                                !.registry = registry_cache],
                      registries[registry_cache[1]], callable_cache)
          ELSE [@ EXCEPT !.op = arrival.op, !.slug = arrival.slug,
                         !.payload = arrival.payload, !.pc = "build"]]
    /\ UNCHANGED <<calc_path_file, name_map_file, registries, registry_cache,
                   callable_cache, builds, out>>

\* what the lru_cache wrapper does with the outcome of the wrapped function:
\* an exception leaves the handler unhandled; a result is returned, and
\* stored unless the key was added meanwhile
Returned(t, built) ==
    IF built.raised # ""
    THEN /\ req' = [req EXCEPT ![t] =
               Respond([@ EXCEPT !.built = TRUE,
                                 !.exc = Raise(built.raised, "get_registry",
                                               "", <<>>)],
                       500, "Internal Server Error", <<>>, <<>>)]
         /\ UNCHANGED <<registries, registry_cache>>
    ELSE /\ req' = [req EXCEPT ![t] =
               [@ EXCEPT !.pc = "handle", !.built = TRUE,
                         !.registry = <<Len(registries) + 1>>]]
         /\ registries' =
               Append(registries,
                      CalculatorRegistry(built.value, Len(registries) + 1))
         /\ registry_cache' =
               IF registry_cache = <<>> THEN <<Len(registries) + 1>>
               ELSE registry_cache

\* get_registry() after a miss of its lru_cache
BuildRegistryFor(t) ==
    /\ req[t].pc = "build"
    /\ Returned(t, _build_definitions(calc_path_file, name_map_file))
    /\ builds' = builds + 1
    /\ UNCHANGED <<calc_path_file, name_map_file, callable_cache, out>>

\* the handler goes on with the registry it built
Handle(t) ==
    /\ req[t].pc = "handle"
    /\ req' = [req EXCEPT ![t] =
          handle(@, registries[req[t].registry[1]], callable_cache)]
    /\ UNCHANGED <<calc_path_file, name_map_file, registries, registry_cache,
                   callable_cache, builds, out>>

\* the response of run_calculator to an exception of _get_callable
ResolveFailed(r, raised, http) ==
    Respond([r EXCEPT !.exc = raised, !.resolved = @ + 1],
            http.status, http.text, http.arg, <<>>)

\* the outcome of _get_callable after a miss: the function is stored
Resolved(t, calculator, function) ==
    IF function.raised.class # ""
    THEN /\ req' = [req EXCEPT ![t] =
               ResolveFailed(@, function.raised, http_of(function.raised))]
         /\ UNCHANGED callable_cache
    ELSE /\ req' = [req EXCEPT ![t] =
               [@ EXCEPT !.pc = "call", !.resolved = @ + 1, !.stored = TRUE,
                         !.callable = <<function.value>>]]
         /\ callable_cache' =
               Put(callable_cache, cache_key(calculator), function.value)

\* _get_callable after a miss: import, getattr, store
Resolve(t) ==
    /\ req[t].pc = "resolve"
    /\ Resolved(t, req[t].calculator[1], import_function(req[t].calculator[1]))
    /\ UNCHANGED <<calc_path_file, name_map_file, registries, registry_cache,
                   builds, out>>

\* the response of run_calculator to what execute_calculator did
RunResponse(r, result, http) ==
    IF result.raised.class # ""
    THEN Respond([r EXCEPT !.exc = result.raised, !.post_ran = result.post_ran],
                 http.status, http.text, http.arg, <<>>)
    ELSE Respond([r EXCEPT !.post_ran = result.post_ran],
                 200, "", <<>>, result.value)

Responded(r, result) == RunResponse(r, result, http_of(result.raised))

\* the rest of execute_calculator and the except clauses of run_calculator
Call(t, outcome) ==
    /\ req[t].pc = "call"
    /\ req' = [req EXCEPT ![t] =
          Responded([@ EXCEPT !.invoked = TRUE, !.returned = outcome.type,
                              !.outcome = <<outcome>>],
                    execute_call(req[t].calculator[1], req[t].python_payload,
                                 outcome))]
    /\ UNCHANGED <<calc_path_file, name_map_file, registries, registry_cache,
                   callable_cache, builds, out>>

Arrive(t) == \E arrival \in Arrivals : Start(t, arrival)

Invoke(t) ==
    \E outcome \in CallableOutcomes(req[t].python_payload) : Call(t, outcome)

Next ==
    \E t \in Requests :
        \/ Arrive(t)
        \/ BuildRegistryFor(t)
        \/ Handle(t)
        \/ Resolve(t)
        \/ Invoke(t)

Spec == Init /\ [][Next]_vars

----------------------------------------------------------------------------
(* Properties of the service *)

FilesOk == calc_path_file.status = "ok" /\ name_map_file.status = "ok"

\* the definitions the metadata documents of the deployment describe
ServiceCatalog ==
    _build_definitions(File("ok", ServiceCalcPath),
                       File("ok", ServiceNameMap)).value

Registered(slug) == \E d \in Range(ServiceCatalog) : d.slug = slug

Done(t) == req[t].pc = "done"

\* the not-found response naming the slug, with nothing resolved, stored or
\* invoked
NotFound(r) ==
    /\ r.status = 404
    /\ r.exc.class = "KeyError"
    /\ r.text = "Unknown calculator slug '"
    /\ r.arg = r.slug
    /\ r.calculator = <<>>
    /\ r.resolved = 0
    /\ ~r.stored
    /\ ~r.invoked

\* C2 as stated: get and run on a slug that is not registered answer not-found
\* for every payload, the empty one included
C2_UnknownSlugAnyPayload ==
    \A t \in Requests :
        (Done(t) /\ req[t].op \in {"get", "run"} /\ FilesOk
            /\ ~Registered(req[t].slug))
        => NotFound(req[t])

\* C2: get, and run with a non-empty payload, on a slug that is not registered
\* answer not-found naming the slug and resolve, store and invoke nothing; run
\* with an empty payload answers 400 before any lookup, also without resolving,
\* storing or invoking anything
C2_UnknownSlug ==
    \A t \in Requests :
        (Done(t) /\ req[t].op \in {"get", "run"} /\ FilesOk
            /\ ~Registered(req[t].slug))
        => IF req[t].op = "run" /\ req[t].payload = <<>>
           THEN /\ req[t].status = 400
                /\ req[t].registry = <<>>
                /\ req[t].resolved = 0
                /\ ~req[t].stored
                /\ ~req[t].invoked
           ELSE NotFound(req[t])

\* a run with a payload and a get were both answered for an unknown slug
C2_Witness ==
    \E t, u \in Requests :
        /\ Done(t) /\ req[t].op = "run" /\ req[t].payload # <<>>
        /\ req[t].status = 404
        /\ Done(u) /\ req[u].op = "get" /\ req[u].status = 404

\* C3: on a registered slug, 400 "Missing required field" answers only a
\* callable that raised on an absent input key, and every other exception is
\* answered 500
C3_MissingFieldOnlyForAbsentInput ==
    \A t \in Requests :
        (Done(t) /\ req[t].op = "run" /\ req[t].calculator # <<>>
            /\ req[t].exc.class # "")
        => IF req[t].exc.origin = "callable"
                /\ req[t].exc.cause = "missing_input"
           THEN req[t].status = 400
           ELSE req[t].status = 500

\* C7: a callable that returns something that is not a dict makes execute fail
\* with a ValueError naming the slug; no response, no post-processor
C7_NonMappingRejected ==
    \A t \in Requests :
        (Done(t) /\ req[t].returned = "list")
        => /\ req[t].exc.class = "ValueError"
           /\ req[t].exc.arg = req[t].calculator[1].slug
           /\ req[t].status = 500
           /\ req[t].body = <<>>
           /\ ~req[t].post_ran

\* the PSI callable, which has a post-processor, returned a list
C7_Witness ==
    \E t \in Requests :
        /\ Done(t)
        /\ req[t].returned = "list"
        /\ req[t].slug = PSI_SLUG

CannotImport(calculator) == ~Has(MODULES, calculator.module_path)

NoSuchFunction(calculator) ==
    /\ Has(MODULES, calculator.module_path)
    /\ calculator.function_name \notin Get(MODULES, calculator.module_path)

\* C8: run on a definition whose module cannot be imported or whose function
\* is not on the module fails with ImportError or AttributeError, answered 500
\* (not the 404 of an unknown slug, not the 400 of a client error); the
\* callable is not invoked, its key is not in the cache and the resolution was
\* tried once
C8_ResolutionFailure ==
    \A t \in Requests :
        (Done(t) /\ req[t].op = "run" /\ req[t].calculator # <<>>
            /\ (CannotImport(req[t].calculator[1])
                \/ NoSuchFunction(req[t].calculator[1])))
        => /\ req[t].exc.class =
                IF CannotImport(req[t].calculator[1])
                THEN "ImportError" ELSE "AttributeError"
           /\ req[t].exc.origin = "resolve"
           /\ req[t].status = 500
           /\ ~req[t].invoked
           /\ ~req[t].stored
           /\ ~Has(callable_cache, cache_key(req[t].calculator[1]))
           /\ req[t].resolved = 1

\* one run failed on the import and another on the attribute lookup
C8_Witness ==
    \E t, u \in Requests :
        /\ Done(t) /\ req[t].exc.class = "ImportError"
        /\ Done(u) /\ req[u].exc.class = "AttributeError"

\* C9: with readable metadata the definitions are built once per process and
\* every request gets the same registry instance
C9_BuiltOnce ==
    FilesOk =>
        /\ builds <= 1
        /\ \A t, u \in Requests :
              (req[t].registry # <<>> /\ req[u].registry # <<>>)
              => registries[req[t].registry[1]].instance
                    = registries[req[u].registry[1]].instance

\* C10: with a metadata document missing or malformed, every build raises the
\* loader's error, no registry is cached or handed to a request, and no
\* request is answered from a catalogue
C10_NoPartialRegistry ==
    ~FilesOk =>
        /\ registry_cache = <<>>
        /\ \A t \in Requests :
              /\ req[t].registry = <<>>
              /\ req[t].built =>
                    /\ Done(t)
                    /\ req[t].status = 500
                    /\ req[t].exc.class =
                          IF calc_path_file.status = "missing"
                          THEN "FileNotFoundError"
                          ELSE IF calc_path_file.status = "malformed"
                          THEN "JSONDecodeError"
                          ELSE IF name_map_file.status = "missing"
                          THEN "FileNotFoundError"
                          ELSE "JSONDecodeError"
              /\ Done(t) => req[t].status \in {400, 500} /\ req[t].body = <<>>

\* a build failed although one of the two documents was readable
C10_Witness ==
    \E t \in Requests :
        /\ Done(t)
        /\ req[t].built
        /\ calc_path_file.status = "ok"
        /\ name_map_file.status = "missing"

----------------------------------------------------------------------------
(* execute_calculator, called one call after another on the definitions of *)
(* the deployment                                                          *)

MaxCalls == 2

\* _get_callable: [raised, value, cache]; cache is _callable_cache afterwards
get_callable_miss(calculator, cache, function) ==
    IF function.raised.class # ""
    THEN [raised |-> function.raised, value |-> <<>>, cache |-> cache]
    ELSE [raised |-> NoException, value |-> function.value,
          cache |-> Put(cache, cache_key(calculator), function.value)]

_get_callable(calculator, cache) ==
    IF Has(cache, cache_key(calculator))
    THEN [raised |-> NoException, value |-> Get(cache, cache_key(calculator)),
          cache |-> cache]
    ELSE get_callable_miss(calculator, cache, import_function(calculator))

\* the local variables of one execute_calculator call, as they are when it
\* returns or raises
execute_frame(calculator, payload, python_payload, outcome, result) ==
    [calculator |-> calculator, payload |-> payload,
     python_payload |-> python_payload, invoked |-> TRUE,
     raw_result |-> outcome.value, returned |-> outcome.type,
     raised |-> result.raised, value |-> result.value,
     post_ran |-> result.post_ran]

execute_unresolved(calculator, payload, python_payload, raised) ==
    [calculator |-> calculator, payload |-> payload,
     python_payload |-> python_payload, invoked |-> FALSE,
     raw_result |-> <<>>, returned |-> "",
     raised |-> raised, value |-> <<>>, post_ran |-> FALSE]

\* execute_calculator once the callable is resolved
execute_resolved(calculator, payload, python_payload, outcome) ==
    execute_frame(calculator, payload, python_payload, outcome,
                  execute_call(calculator, python_payload, outcome))

\* the payloads execute_calculator is called with
ExecPayloads == {<<<<S_Age, <<"#","4","5">>>>>>, <<<<S_Age, <<"#","6","0">>>>>>}

\* a mapping that holds no "Answer"
NoAnswerValue == [type |-> "dict", value |-> <<<<K_Explanation, <<"e">>>>>>]

\* what the callable may do in these calls
ExecOutcomes(python_payload) ==
    CallableOutcomes(python_payload)
    \cup {[kind |-> "return", type |-> NoAnswerValue.type,
           value |-> NoAnswerValue.value, exc |-> NoException]}

InitExecute ==
    /\ calc_path_file = File("ok", ServiceCalcPath)
    /\ name_map_file = File("ok", ServiceNameMap)
    /\ registries = <<CalculatorRegistry(ServiceCatalog, 1)>>
    /\ registry_cache = <<1>>
    /\ callable_cache = <<>>
    /\ builds = 1
    /\ req = <<>>
    /\ out = [op |-> "execute", calls |-> <<>>]

\* execute_calculator(calculator, payload) when _get_callable raises
ExecuteUnresolved(calculator, payload) ==
    /\ Len(out.calls) < MaxCalls
    /\ _get_callable(calculator, callable_cache).raised.class # ""
    /\ out' = [out EXCEPT !.calls = Append(@,
          execute_unresolved(
              calculator, payload,
              translate_inputs(calculator.field_map, payload),
              _get_callable(calculator, callable_cache).raised))]
    /\ UNCHANGED <<calc_path_file, name_map_file, registries, registry_cache,
                   callable_cache, builds, req>>

\* execute_calculator(calculator, payload) with a callable that does `outcome`
ExecuteResolved(calculator, payload, outcome) ==
    /\ Len(out.calls) < MaxCalls
    /\ _get_callable(calculator, callable_cache).raised.class = ""
    /\ callable_cache' = _get_callable(calculator, callable_cache).cache
    /\ out' = [out EXCEPT !.calls = Append(@,
          execute_resolved(
              calculator, payload,
              translate_inputs(calculator.field_map, payload), outcome))]
    /\ UNCHANGED <<calc_path_file, name_map_file, registries, registry_cache,
                   builds, req>>

ExecuteFails ==
    \E calculator \in Range(ServiceCatalog), payload \in ExecPayloads :
        ExecuteUnresolved(calculator, payload)

ExecuteCalls ==
    \E calculator \in Range(ServiceCatalog), payload \in ExecPayloads :
        \E outcome \in ExecOutcomes(
                translate_inputs(calculator.field_map, payload)) :
            ExecuteResolved(calculator, payload, outcome)

NextExecute == ExecuteFails \/ ExecuteCalls

SpecExecute == InitExecute /\ [][NextExecute]_vars

\* the calls of execute_calculator that returned a response
Returns == {i \in DOMAIN out.calls : out.calls[i].raised.class = "" /\ out.calls[i].invoked}

\* `value` is `base` with every field of `post` added or overriding
MergedOver(value, base, post) ==
    /\ Keys(value) = Keys(base) \cup Keys(post)
    /\ \A k \in Keys(post) : Get(value, k) = Get(post, k)
    /\ \A k \in Keys(base) \ Keys(post) : Get(value, k) = Get(base, k)

\* C11: the response of execute is the base response with every field the
\* post-processor returned added or overriding when a processor is registered
\* for the slug, and is exactly the base response when none is
C11_PostFieldsOverride ==
    \A i \in Returns :
        IF out.calls[i].calculator.slug \in POST_PROCESSORS
        THEN MergedOver(
                 out.calls[i].value,
                 base_response(out.calls[i].calculator, out.calls[i].raw_result),
                 _psi_processor(out.calls[i].python_payload,
                                out.calls[i].raw_result).value)
        ELSE out.calls[i].value =
                 base_response(out.calls[i].calculator, out.calls[i].raw_result)

\* a call with a registered processor and a call without one both returned
C11_Witness ==
    \E i, j \in Returns :
        /\ out.calls[i].calculator.slug \in POST_PROCESSORS
        /\ Has(out.calls[i].value, "risk_class")
        /\ out.calls[j].calculator.slug \notin POST_PROCESSORS

\* C12: for a callable that returned a mapping, the response holds the
\* definition's id, slug and name, the mapping's "Answer" and "Explanation"
\* (null for a key the mapping lacks) and the whole mapping as raw_response
C12_BaseResponseFields ==
    \A i \in Returns :
        /\ Get(out.calls[i].value, "calculator_id") = out.calls[i].calculator.id
        /\ Get(out.calls[i].value, "calculator_slug")
              = out.calls[i].calculator.slug
        /\ Get(out.calls[i].value, "calculator_name")
              = out.calls[i].calculator.name
        /\ \A j \in DOMAIN out.calls[i].raw_result :
              /\ out.calls[i].raw_result[j][1] = K_Answer
                    => Get(out.calls[i].value, "answer")
                          = out.calls[i].raw_result[j][2]
              /\ out.calls[i].raw_result[j][1] = K_Explanation
                    => Get(out.calls[i].value, "explanation")
                          = out.calls[i].raw_result[j][2]
        /\ ~Has(out.calls[i].raw_result, K_Answer)
              => Get(out.calls[i].value, "answer") = None
        /\ Get(out.calls[i].value, "raw_response") = out.calls[i].raw_result

\* a mapping with an "Answer" and a mapping without one were both returned
C12_Witness ==
    \E i, j \in Returns :
        /\ Has(out.calls[i].raw_result, K_Answer)
        /\ Has(out.calls[i].value, "is_class_i")
        /\ ~Has(out.calls[j].raw_result, K_Answer)

----------------------------------------------------------------------------
(* _derive_psi_risk_class on any score *)

MaxDerives == 2

\* Optional[int] scores, on and around the thresholds
PsiScores == {None} \cup {json_int(n) : n \in {0, 70, 71, 90, 91, 95, 130, 131, 140}}

InitTier ==
    /\ calc_path_file = File("ok", <<>>)
    /\ name_map_file = File("ok", <<>>)
    /\ registries = <<>>
    /\ registry_cache = <<>>
    /\ callable_cache = <<>>
    /\ builds = 0
    /\ req = <<>>
    /\ out = [op |-> "_derive_psi_risk_class", derived |-> <<>>]

\* _derive_psi_risk_class(score, is_class_i)
Derive(score, is_class_i) ==
    /\ Len(out.derived) < MaxDerives
    /\ out' = [out EXCEPT !.derived = Append(@,
          [score |-> score, is_class_i |-> is_class_i,
           value |-> _derive_psi_risk_class(score, is_class_i)])]
    /\ UNCHANGED <<calc_path_file, name_map_file, registries, registry_cache,
                   callable_cache, builds, req>>

NextTier == \E score \in PsiScores, is_class_i \in BOOLEAN : Derive(score, is_class_i)

SpecTier == InitTier /\ [][NextTier]_vars

\* the classifications made off the fast path of an integer score
Tiered == {i \in DOMAIN out.derived : ~out.derived[i].is_class_i /\ out.derived[i].score # None}

\* the integer of a classified score
ScoreOf(i) == int_of(Tail(out.derived[i].score))

\* the position of a risk class among the four tiers
TierRank(risk_class) ==
    CASE risk_class = "Risk Class II" -> 2
      [] risk_class = "Risk Class III" -> 3
      [] risk_class = "Risk Class IV" -> 4
      [] risk_class = "Risk Class V" -> 5
      [] OTHER -> 0

\* C13 as stated: off the fast path, a score of 95 is Risk Class III and a
\* score of 140 is Risk Class V
C13_TierOf95And140 ==
    \A i \in Tiered :
        /\ ScoreOf(i) = 95 => out.derived[i].value.risk_class = "Risk Class III"
        /\ ScoreOf(i) = 140 => out.derived[i].value.risk_class = "Risk Class V"

\* C13: off the fast path, a score of 95 is Risk Class IV (it is above 90) and
\* a score of 140 is Risk Class V
C13_TierOf95Is4 ==
    \A i \in Tiered :
        /\ ScoreOf(i) = 95 => out.derived[i].value.risk_class = "Risk Class IV"
        /\ ScoreOf(i) = 140 => out.derived[i].value.risk_class = "Risk Class V"

\* the scores 95 and 140 were both classified off the fast path
C13_Witness ==
    \E i, j \in Tiered : ScoreOf(i) = 95 /\ ScoreOf(j) = 140

\* C16: off the fast path an integer score s is Risk Class II for s <= 70,
\* III for 70 < s <= 90, IV for 90 < s <= 130 and V for s > 130, each with its
\* recommendation, and a greater score never has a lower tier
C16_TierThresholds ==
    /\ \A i \in Tiered :
          out.derived[i].value =
              IF ScoreOf(i) <= 70
              THEN [risk_class |-> "Risk Class II",
                    recommendation |-> "Low risk. Outpatient care appropriate."]
              ELSE IF ScoreOf(i) <= 90
              THEN [risk_class |-> "Risk Class III",
                    recommendation |->
                      "Low risk. Consider outpatient management or brief observation."]
              ELSE IF ScoreOf(i) <= 130
              THEN [risk_class |-> "Risk Class IV",
                    recommendation |->
                      "Moderate risk. Recommend inpatient admission."]
              ELSE [risk_class |-> "Risk Class V",
                    recommendation |->
                      "High risk. Recommend inpatient admission (consider ICU)."]
    /\ \A i, j \in Tiered :
          ScoreOf(i) <= ScoreOf(j)
          => TierRank(out.derived[i].value.risk_class)
                <= TierRank(out.derived[j].value.risk_class)

\* two scores on the two sides of a threshold were classified
C16_Witness ==
    \E i, j \in Tiered :
        /\ ScoreOf(i) = 70 /\ ScoreOf(j) = 71
        /\ out.derived[i].value.risk_class # out.derived[j].value.risk_class

----------------------------------------------------------------------------
(* _psi_processor on any inputs and any raw result *)

\* marks a key the dict does not hold
Absent == <<"ABSENT">>

\* the dict of the pairs whose value is not Absent
RECURSIVE DropAbsent(_)
DropAbsent(d) ==
    IF d = <<>> THEN <<>>
    ELSE IF Head(d)[2] = Absent THEN DropAbsent(Tail(d))
    ELSE <<Head(d)>> \o DropAbsent(Tail(d))

\* a [value, unit] pair
Pair(value, unit) == <<"LIST">> \o value \o <<"SEP">> \o unit

K_chf == <<"c","h","f">>

AgeValues == {Absent, <<"#","4","5">>, <<"#","5","0">>, <<"#","5","1">>}
NursingValues == {Absent, False, <<"y","e","s">>}
MentalValues == {False, True, <<"f","a","l","s","e">>}
ChfValues == {Absent, <<"1">>, <<"0">>}
RespiratoryValues == {<<"#","1","8">>, <<"#","3","0">>}
PressureValues == {<<"#","1","2","0">>, <<"#","8","9">>}
HeartValues == {<<"#","8","0">>, <<"#","1","2","5">>}
TemperatureValues == {
    Pair(<<"#","3","7">>, <<"C">>), Pair(<<"#","1","0","4">>, <<"F">>),
    Pair(<<"#","9","8">>, <<"F">>), <<"#","3","4">> }

\* the translated inputs the processor is given
PsiInputs ==
    {DropAbsent(<<
        <<K_age, age>>, <<K_nursing_home_resident, nursing>>,
        <<K_altered_mental_status, mental>>, <<K_chf, chf>>,
        <<K_respiratory_rate, respiratory>>, <<K_sys_bp, pressure>>,
        <<K_heart_rate, heart>>, <<K_temperature, temperature>> >>) :
        age \in AgeValues, nursing \in NursingValues, mental \in MentalValues,
        chf \in ChfValues, respiratory \in RespiratoryValues,
        pressure \in PressureValues, heart \in HeartValues,
        temperature \in TemperatureValues}

\* the raw results of the calculator: an int, an unparseable, an infinite and
\* a missing "Answer"
PsiRawResults ==
    {DropAbsent(<<<<K_Answer, answer>>, <<K_Explanation, <<"e">>>>>>) :
        answer \in {<<"#","9","5">>, <<"#","1","4","0">>, <<"x">>,
                    <<"i","n","f">>, Absent}}

InitPsi ==
    /\ calc_path_file = File("ok", <<>>)
    /\ name_map_file = File("ok", <<>>)
    /\ registries = <<>>
    /\ registry_cache = <<>>
    /\ callable_cache = <<>>
    /\ builds = 0
    /\ req = <<>>
    /\ \E inputs \in PsiInputs, raw_result \in PsiRawResults :
          out = [op |-> "", inputs |-> inputs, raw_result |-> raw_result,
                 raised |-> "", value |-> <<>>]

\* the call has returned or raised
Processed(o, result) ==
    [o EXCEPT !.op = "_psi_processor", !.raised = result.raised,
              !.value = result.value]

\* _psi_processor(inputs, raw_result)
Process ==
    /\ out.op = ""
    /\ out' = Processed(out, _psi_processor(out.inputs, out.raw_result))
    /\ UNCHANGED <<calc_path_file, name_map_file, registries, registry_cache,
                   callable_cache, builds, req>>

NextPsi == Process

SpecPsi == InitPsi /\ [][NextPsi]_vars

\* the fast path as the claim states it: every flag, the altered mental
\* status included, is read under the coercion of _as_bool
FastPathUnderCoercion(inputs) ==
    /\ age_at_most_50(age_conversion(Get(inputs, K_age)))
    /\ ~_as_bool(Get(inputs, K_nursing_home_resident))
    /\ \A flag \in K_comorbidities : ~_as_bool(Get(inputs, flag))
    /\ ~_as_bool(Get(inputs, K_altered_mental_status))
    /\ ~float_ge(_extract_value(Get(inputs, K_respiratory_rate)), 30)
    /\ ~float_lt(_extract_value(Get(inputs, K_sys_bp)), 90)
    /\ ~temp_lt(_convert_temperature_to_celsius(Get(inputs, K_temperature)), 35)
    /\ ~temp_ge(_convert_temperature_to_celsius(Get(inputs, K_temperature)), 40)
    /\ ~float_ge(_extract_value(Get(inputs, K_heart_rate)), 125)

\* C14: with age and the vital signs present, is_class_i is true exactly when
\* age <= 50, no flag (nursing home, comorbidity, altered mental status) is set
\* under the boolean coercion, and no vital sign crosses its threshold
C14_FastPathUnderCoercion ==
    (out.op = "_psi_processor" /\ out.raised = "" /\ Has(out.inputs, K_age))
    => (Get(out.value, "is_class_i") = True
            <=> FastPathUnderCoercion(out.inputs))

\* C15: for every input the processor returns exactly score, raw_score,
\* risk_class, recommendation and is_class_i; raw_score is the rounded score,
\* is_class_i is a boolean, risk_class is "Risk Class I" exactly when
\* is_class_i, and score is null when is_class_i and raw_score otherwise
C15_ProcessorFields ==
    out.op = "_psi_processor"
    => /\ out.raised = ""
       /\ Keys(out.value) = {"score", "raw_score", "risk_class",
                             "recommendation", "is_class_i"}
       /\ Len(out.value) = 5
       /\ is_bool(Get(out.value, "is_class_i"))
       /\ to_float(Get(out.raw_result, K_Answer)).kind = "num"
             => Get(out.value, "raw_score")
                   = json_int(to_float(Get(out.raw_result, K_Answer)).n)
       /\ Get(out.value, "risk_class") = "Risk Class I"
             <=> Get(out.value, "is_class_i") = True
       /\ Get(out.value, "score") =
             IF Get(out.value, "is_class_i") = True THEN None
             ELSE Get(out.value, "raw_score")

----------------------------------------------------------------------------
(* The callers of one registry: list(), get_by_slug() and what they do to  *)
(* the lists they were given. A list object is [shared, items]; shared     *)
(* tells that the object is the registry's own _calculators list.          *)

MaxOps == 4

\* a list() that hands out the registry's own list
list_alias(registry) == [shared |-> TRUE, items |-> registry._calculators]

\* CalculatorRegistry.list: list(self._calculators), a new list object
list_copy(registry) == [shared |-> FALSE, items |-> registry._calculators]

\* three entries whose names give the slugs a, a-2, a-2
CollidingNameMap == Keyed(<<
    <<<<K_Calculator_Name, <<"a">>>>, <<K_Explanation_Function, S_f>>,
      <<K_File_Path, S_m_py>>>>,
    <<<<K_Calculator_Name, <<"A">>>>, <<K_Explanation_Function, S_f>>,
      <<K_File_Path, S_m_py>>>>,
    <<<<K_Calculator_Name, <<"a","-","2">>>>, <<K_Explanation_Function, S_f>>,
      <<K_File_Path, S_m_py>>>> >>)

LookupSlugs == {PSI_SLUG, <<"a","-","2">>, <<"z","z">>}

\* list.clear() and list.pop() by a caller
ListMutations == {"clear", "pop"}

mutated(items, mutation) ==
    IF mutation = "clear" \/ items = <<>> THEN <<>>
    ELSE SubSeq(items, 1, Len(items) - 1)

\* the registry get_registry() caches for the documents on disk
registry_of(built) == CalculatorRegistry(built.value, 1)

InitRegistry ==
    /\ calc_path_file = File("ok", ServiceCalcPath)
    /\ name_map_file \in {File("ok", ServiceNameMap), File("ok", CollidingNameMap)}
    /\ registries = <<registry_of(_build_definitions(calc_path_file, name_map_file))>>
    /\ registry_cache = <<1>>
    /\ callable_cache = <<>>
    /\ builds = 1
    /\ req = <<>>
    /\ out = [op |-> "", ops |-> 0, lists |-> <<>>, mutations |-> 0,
              slug |-> <<>>, value |-> <<>>]

\* a caller calls get_registry().list() and keeps the list
ListCall ==
    /\ out.ops < MaxOps
    /\ out' = [out EXCEPT !.op = "list", !.ops = @ + 1, !.slug = <<>>,
                          !.lists = Append(@, list_copy(registries[1])),
                          !.value = list_copy(registries[1]).items]
    /\ UNCHANGED <<calc_path_file, name_map_file, registries, registry_cache,
                   callable_cache, builds, req>>

\* a caller calls get_registry().get_by_slug(slug)
GetBySlugCall(slug) ==
    /\ out.ops < MaxOps
    /\ out' = [out EXCEPT !.op = "get_by_slug", !.ops = @ + 1, !.slug = slug,
                          !.value = get_by_slug(registries[1], slug)]
    /\ UNCHANGED <<calc_path_file, name_map_file, registries, registry_cache,
                   callable_cache, builds, req>>

\* a caller mutates a list it was given; the registry's list changes with it
\* if it is the same object
MutateList(i, mutation) ==
    /\ out.ops < MaxOps
    /\ out' = [out EXCEPT !.op = "mutate", !.ops = @ + 1,
                          !.mutations = @ + 1, !.slug = <<>>, !.value = <<>>,
                          !.lists[i].items = mutated(@, mutation)]
    /\ registries' =
          IF out.lists[i].shared
          THEN [registries EXCEPT ![1]._calculators = mutated(@, mutation)]
          ELSE registries
    /\ UNCHANGED <<calc_path_file, name_map_file, registry_cache,
                   callable_cache, builds, req>>

Lookup == \E slug \in LookupSlugs : GetBySlugCall(slug)

Mutation ==
    \E i \in DOMAIN out.lists, mutation \in ListMutations : MutateList(i, mutation)

NextRegistry == ListCall \/ Lookup \/ Mutation

SpecRegistry == InitRegistry /\ [][NextRegistry]_vars

\* the registry as it was built from the documents
AsBuilt == registry_of(_build_definitions(calc_path_file, name_map_file))

\* C17: whatever list() and get_by_slug() calls are made and whatever the
\* callers do to the lists they got, the registry's definitions and its two
\* indices stay as built, list() returns all definitions in build order and
\* get_by_slug() answers as it did on the registry as built
C17_RegistryReadOnly ==
    /\ registries[1] = AsBuilt
    /\ out.op = "list" => out.value = AsBuilt._calculators
    /\ out.op = "get_by_slug" => out.value = get_by_slug(AsBuilt, out.slug)

\* list() was called again after a caller had emptied a list it was given
C17_Witness ==
    /\ out.op = "list"
    /\ out.mutations > 0
    /\ out.value # <<>>
    /\ \E i \in DOMAIN out.lists : out.lists[i].items # out.value

----------------------------------------------------------------------------
(* The callable cache under concurrent run requests: the service with its *)
(* metadata readable and runs of definitions that share a cache key       *)

\* runs of the two definitions with the key (psi, f), of a definition whose
\* function is missing, and of an unknown slug
CacheArrivals ==
    {[op |-> "run", slug |-> sl, payload |-> <<<<S_Age, <<"#","4","5">>>>>>] :
        sl \in {PSI_SLUG, <<"f">>, <<"d">>, <<"z","z">>}}

InitCache ==
    /\ calc_path_file = File("ok", ServiceCalcPath)
    /\ name_map_file = File("ok", ServiceNameMap)
    /\ registries = <<>>
    /\ registry_cache = <<>>
    /\ callable_cache = <<>>
    /\ builds = 0
    /\ req = [t \in Requests |-> Idle]
    /\ out = [op |-> "", raised |-> "", value |-> <<>>]

ArriveRun(t) == \E arrival \in CacheArrivals : Start(t, arrival)

NextCache ==
    \E t \in Requests :
        \/ ArriveRun(t)
        \/ BuildRegistryFor(t)
        \/ Handle(t)
        \/ Resolve(t)
        \/ Invoke(t)

SpecCache == InitCache /\ [][NextCache]_vars

\* every entry of _callable_cache is still there, with the same callable,
\* after the step
CacheEntriesKept ==
    \A i \in DOMAIN callable_cache :
        /\ Has(callable_cache', callable_cache[i][1])
        /\ Get(callable_cache', callable_cache[i][1]) = callable_cache[i][2]

\* in this step request t enters execute_calculator and reads the cache
Dispatched(t) ==
    /\ req[t].calculator = <<>>
    /\ req'[t].calculator # <<>>
    /\ req'[t].op = "run"

\* a dispatch that finds its key in the cache goes on to the call with the
\* cached callable, and a request that holds its callable imports no more
CachedCallableUsed(t) ==
    /\ (Dispatched(t)
            /\ Has(callable_cache, cache_key(req'[t].calculator[1])))
       => /\ req'[t].pc = "call"
          /\ req'[t].callable
                = <<Get(callable_cache, cache_key(req'[t].calculator[1]))>>
          /\ req'[t].resolved = 0
    /\ req[t].callable # <<>>
       => /\ req'[t].callable = req[t].callable
          /\ req'[t].resolved = req[t].resolved

\* C21: a key once stored in the callable cache stays there mapped to the same
\* callable in every later step, and every dispatch that starts after the key
\* was stored, of any definition with that key, uses the cached callable and
\* imports nothing
C21_CacheEntryKept ==
    [][CacheEntriesKept /\ \A t \in Requests : CachedCallableUsed(t)]_vars

\* one definition resolved and stored the callable, and a later run of another
\* definition with the same key was invoked without resolving
C21_Witness ==
    \E t, u \in Requests :
        /\ req[u].stored
        /\ req[t].invoked /\ req[t].resolved = 0
        /\ req[t].calculator[1].slug # req[u].calculator[1].slug
        /\ cache_key(req[t].calculator[1]) = cache_key(req[u].calculator[1])
        /\ req[t].callable
              = <<Get(callable_cache, cache_key(req[u].calculator[1]))>>

\* the entries of _callable_cache under one key
EntriesOf(key) == {i \in DOMAIN callable_cache : callable_cache[i][1] = key}

\* request t holds the callable of its definition's key, which is the one
\* entry the cache has for the key
HoldsCallableOfKey(t) ==
    /\ req[t].callable = <<import_function(req[t].calculator[1]).value>>
    /\ Cardinality(EntriesOf(cache_key(req[t].calculator[1]))) = 1
    /\ req[t].callable
          = <<Get(callable_cache, cache_key(req[t].calculator[1]))>>

\* C22: however concurrent runs of definitions with one (module_path,
\* function_name) interleave, each of them calls the callable resolved for the
\* key, and the cache holds exactly one entry for the key with that callable;
\* runs that both missed hold the same callable
C22_ConcurrentFirstAccess ==
    /\ \A t \in Requests :
          (req[t].callable # <<>> \/ req[t].invoked \/ req[t].stored)
          => HoldsCallableOfKey(t)
    /\ \A t, u \in Requests :
          (req[t].callable # <<>> /\ req[u].callable # <<>>
              /\ cache_key(req[t].calculator[1])
                    = cache_key(req[u].calculator[1]))
          => req[t].callable = req[u].callable

\* two runs of different definitions with one key both missed the cache, both
\* resolved and stored, and both were invoked
C22_Witness ==
    \E t, u \in Requests :
        /\ req[t].stored /\ req[u].stored
        /\ req[t].invoked /\ req[u].invoked
        /\ req[t].calculator[1].slug # req[u].calculator[1].slug
        /\ cache_key(req[t].calculator[1]) = cache_key(req[u].calculator[1])
        /\ Len(callable_cache) = 1

\* the HTTP response of a request
response_of(r) ==
    [status |-> r.status, text |-> r.text, arg |-> r.arg, body |-> r.body]

\* run_calculator, served alone by a new process, after execute_calculator
alone_called(result, http) ==
    IF result.raised.class # ""
    THEN [status |-> http.status, text |-> http.text, arg |-> http.arg,
          body |-> <<>>]
    ELSE [status |-> 200, text |-> "", arg |-> <<>>, body |-> result.value]

alone_executed(result) == alone_called(result, http_of(result.raised))

\* ... after _get_callable on the empty cache; the callable does what it did
\* for r
alone_resolved(r, calculator, got, http) ==
    IF got.raised.class # ""
    THEN [status |-> http.status, text |-> http.text, arg |-> http.arg,
          body |-> <<>>]
    ELSE IF r.outcome = <<>>
    THEN [status |-> 0, text |-> "invoked", arg |-> <<>>, body |-> <<>>]
    ELSE alone_executed(
             execute_call(calculator,
                          translate_inputs(calculator.field_map, r.payload),
                          r.outcome[1]))

\* ... after get_by_slug
alone_found(r, found) ==
    IF found.raised # ""
    THEN [status |-> 404, text |-> found.message[1], arg |-> found.message[2],
          body |-> <<>>]
    ELSE alone_resolved(r, found.value, _get_callable(found.value, <<>>),
                        http_of(_get_callable(found.value, <<>>).raised))

\* the registry a new process builds from the documents of the deployment
AloneRegistry == CalculatorRegistry(ServiceCatalog, 1)

\* the response to r of a process that serves no other request
alone_run(r) ==
    IF payload_rejected(r.payload)
    THEN [status |-> 400,
          text |-> "Request body must be a JSON object with calculator inputs.",
          arg |-> <<>>, body |-> <<>>]
    ELSE alone_found(r, get_by_slug(AloneRegistry, r.slug))

\* C23: however concurrent run requests interleave, the response of each is
\* the response a process serving it alone gives for the same slug and payload
\* and the same behaviour of the callable
C23_ResponseAsIfAlone ==
    \A t \in Requests :
        (Done(t) /\ req[t].op = "run")
        => response_of(req[t]) = alone_run(req[t])

\* two runs with one key overlapped (both missed the cache and both stored);
\* one was answered 200 with the post-processor's fields and the other 400
C23_Witness ==
    \E t, u \in Requests :
        /\ Done(t) /\ Done(u)
        /\ req[t].stored /\ req[u].stored
        /\ cache_key(req[t].calculator[1]) = cache_key(req[u].calculator[1])
        /\ req[t].status = 200 /\ req[t].post_ran
        /\ req[u].status = 400

----------------------------------------------------------------------------
(* _psi_processor on a raw result without a usable "Answer" *)

\* an "Answer" that float() or round() rejects with TypeError or ValueError:
\* null, a str that is no number, the empty str, "nan", and a list
IndeterminateAnswers ==
    {None, <<"x">>, <<>>, <<"n","a","n">>, Pair(<<"#","9","5">>, <<"p">>)}

AnswerInputs ==
    {DropAbsent(<<
        <<K_age, age>>, <<K_nursing_home_resident, nursing>>,
        <<K_altered_mental_status, mental>>,
        <<K_respiratory_rate, <<"#","1","8">>>>,
        <<K_sys_bp, <<"#","1","2","0">>>>,
        <<K_heart_rate, <<"#","8","0">>>>,
        <<K_temperature, Pair(<<"#","3","7">>, <<"C">>)>> >>) :
        age \in AgeValues, nursing \in NursingValues, mental \in MentalValues}

AnswerRawResults ==
    {DropAbsent(<<<<K_Answer, answer>>, <<K_Explanation, <<"e">>>>>>) :
        answer \in IndeterminateAnswers \cup {Absent, <<"#","9","5">>}}

InitPsiAnswer ==
    /\ calc_path_file = File("ok", <<>>)
    /\ name_map_file = File("ok", <<>>)
    /\ registries = <<>>
    /\ registry_cache = <<>>
    /\ callable_cache = <<>>
    /\ builds = 0
    /\ req = <<>>
    /\ \E inputs \in AnswerInputs, raw_result \in AnswerRawResults :
          out = [op |-> "", inputs |-> inputs, raw_result |-> raw_result,
                 raised |-> "", value |-> <<>>]

SpecPsiAnswer == InitPsiAnswer /\ [][NextPsi]_vars

AnswerIndeterminate(raw_result) ==
    \/ ~Has(raw_result, K_Answer)
    \/ Get(raw_result, K_Answer) \in IndeterminateAnswers

\* C24: when "Answer" is absent, null or not parseable as a number, the
\* processor returns without raising, raw_score is null, and risk_class is
\* "Unknown" with the score-unavailable recommendation unless is_class_i, in
\* which case it is "Risk Class I"
C24_IndeterminateScore ==
    (out.op = "_psi_processor" /\ AnswerIndeterminate(out.raw_result))
    => /\ out.raised = ""
       /\ Get(out.value, "raw_score") = None
       /\ Get(out.value, "score") = None
       /\ IF Get(out.value, "is_class_i") = True
          THEN Get(out.value, "risk_class") = "Risk Class I"
          ELSE /\ Get(out.value, "risk_class") = "Unknown"
               /\ Get(out.value, "recommendation")
                     = "Score unavailable. Please verify the inputs."

\* a raw result with an unparseable "Answer" was processed outside the fast
\* path
C24_Witness ==
    /\ out.op = "_psi_processor"
    /\ Get(out.raw_result, K_Answer) = <<"x">>
    /\ Get(out.value, "is_class_i") = False
    /\ Get(out.value, "risk_class") = "Unknown"

----------------------------------------------------------------------------
(* _convert_temperature_to_celsius on scalars, one-item lists and pairs *)

TemperatureItems ==
    {<<"#","9","7">>, <<"#","3","7">>, <<"#","1","0","4">>, <<"#","3","2">>,
     <<"9","8">>, <<"x">>, None, True}

TemperatureUnits ==
    {<<"F">>, <<"f">>, <<"C">>, <<"c">>, <<"K">>, <<>>, <<"d","e","g","F">>,
     <<"F"," ","c","o","r","e">>}

\* the fields: a bare item, a list of one item, and a [item, unit] pair
TemperatureFields ==
    {[field |-> item, item |-> item, unit |-> Absent] :
        item \in TemperatureItems}
    \cup {[field |-> <<"LIST">> \o item, item |-> item, unit |-> Absent] :
            item \in TemperatureItems}
    \cup {[field |-> Pair(item, unit), item |-> item, unit |-> unit] :
            item \in TemperatureItems, unit \in TemperatureUnits}

InitTemperature ==
    /\ calc_path_file = File("ok", <<>>)
    /\ name_map_file = File("ok", <<>>)
    /\ registries = <<>>
    /\ registry_cache = <<>>
    /\ callable_cache = <<>>
    /\ builds = 0
    /\ req = <<>>
    /\ \E f \in TemperatureFields :
          out = [op |-> "", field |-> f.field, item |-> f.item,
                 unit |-> f.unit, value |-> <<>>]

\* _convert_temperature_to_celsius(field)
ConvertTemperature ==
    /\ out.op = ""
    /\ out' = [out EXCEPT !.op = "_convert_temperature_to_celsius",
                          !.value = _convert_temperature_to_celsius(out.field)]
    /\ UNCHANGED <<calc_path_file, name_map_file, registries, registry_cache,
                   callable_cache, builds, req>>

NextTemperature == ConvertTemperature

SpecTemperature == InitTemperature /\ [][NextTemperature]_vars

\* the call returned for a field whose item is a number v
ConvertedNumber ==
    /\ out.op = "_convert_temperature_to_celsius"
    /\ to_float(out.item).raised = ""

\* the unit of the field holds the letter, in either case
UnitHas(letter) ==
    out.unit # Absent /\ letter \in Range(lower(str(out.unit)))

\* the result is v
ReturnsValue ==
    out.value = [kind |-> to_float(out.item).kind, num |-> to_float(out.item).n,
                 den |-> 1]

\* the result is (v - 32) * 5 / 9
ReturnsConverted ==
    IF to_float(out.item).kind = "num"
    THEN /\ out.value.kind = "num"
         /\ out.value.num * 9 = (to_float(out.item).n - 32) * 5 * out.value.den
    ELSE out.value.kind = to_float(out.item).kind

\* (97, "F") gives about 36.11 and (37, "C") gives 37.0
TemperatureExamples ==
    /\ out.field = Pair(<<"#","9","7">>, <<"F">>)
          => /\ 3611 * out.value.den <= 100 * out.value.num
             /\ 100 * out.value.num < 3612 * out.value.den
    /\ out.field = Pair(<<"#","3","7">>, <<"C">>)
          => out.value.num = 37 * out.value.den

\* C25 as stated: every unit that holds "f" converts, every unit that holds
\* "c" passes the value through, and so does a field without a unit token
C25_FahrenheitTokenConverts ==
    ConvertedNumber
    => /\ UnitHas("f") => ReturnsConverted
       /\ UnitHas("c") => ReturnsValue
       /\ (~UnitHas("f") /\ ~UnitHas("c")) => ReturnsValue
       /\ TemperatureExamples

\* C25: a unit that holds "c" passes the value through whether or not it holds
\* "f"; a unit that holds "f" and no "c" converts by (v - 32) * 5/9; a bare
\* scalar, a one-item list and a unit with neither letter pass the value
\* through; (97, "F") gives about 36.11 and (37, "C") gives 37.0; an item that
\* is no number gives None
C25_CelsiusTokenFirst ==
    /\ ConvertedNumber
       => /\ UnitHas("c") => ReturnsValue
          /\ (UnitHas("f") /\ ~UnitHas("c")) => ReturnsConverted
          /\ (~UnitHas("f") /\ ~UnitHas("c")) => ReturnsValue
          /\ TemperatureExamples
    /\ (out.op = "_convert_temperature_to_celsius"
            /\ to_float(out.item).raised # "")
       => out.value.kind = "none"

\* (97, "F") was converted to 325/9
C25_Witness ==
    /\ out.op = "_convert_temperature_to_celsius"
    /\ out.field = Pair(<<"#","9","7">>, <<"F">>)
    /\ out.value = [kind |-> "num", num |-> 325, den |-> 9]

----------------------------------------------------------------------------
(* _as_bool on booleans, numbers, strs in every letter case, lists and None *)

\* the upper-case letter of each lower-case letter
UpperOf ==
    [c \in Range(LOWER) |-> UPPER[CHOOSE i \in DOMAIN LOWER : LOWER[i] = c]]

\* the spellings of a lower-case word in every letter case
AnyCase(word) ==
    {[i \in DOMAIN word |->
        IF i \in upper /\ word[i] \in DOMAIN UpperOf
        THEN UpperOf[word[i]] ELSE word[i]] : upper \in SUBSET DOMAIN word}

YesWords ==
    AnyCase(<<"y","e","s">>) \cup AnyCase(<<"t","r","u","e">>) \cup {<<"1">>}

BoolValues ==
    YesWords
    \cup AnyCase(<<"n","o">>) \cup AnyCase(<<"f","a","l","s","e">>)
    \cup {<<>>, <<"0">>, <<"y">>, <<"o","n">>, <<"2">>, <<" ","y","e","s">>}
    \cup {True, False, None, <<"#","1">>, <<"#","0">>, <<"#","2">>,
          <<"LIST">>, <<"LIST","#","0">>}

InitBool ==
    /\ calc_path_file = File("ok", <<>>)
    /\ name_map_file = File("ok", <<>>)
    /\ registries = <<>>
    /\ registry_cache = <<>>
    /\ callable_cache = <<>>
    /\ builds = 0
    /\ req = <<>>
    /\ \E value \in BoolValues :
          out = [op |-> "", arg |-> value, value |-> <<>>]

\* _as_bool(value)
Coerce ==
    /\ out.op = ""
    /\ out' = [out EXCEPT !.op = "_as_bool", !.value = _as_bool(out.arg)]
    /\ UNCHANGED <<calc_path_file, name_map_file, registries, registry_cache,
                   callable_cache, builds, req>>

NextBool == Coerce

SpecBool == InitBool /\ [][NextBool]_vars

\* C26: _as_bool gives true for True, 1 and "yes", "true", "1" in any letter
\* case, gives false for False, 0, "", None and "no", and always gives a
\* boolean
C26_BooleanCoercion ==
    out.op = "_as_bool"
    => /\ out.value \in BOOLEAN
       /\ out.arg \in YesWords \cup {True, <<"#","1">>} => out.value = TRUE
       /\ out.arg \in {False, <<"#","0">>, <<>>, None, <<"n","o">>}
             => out.value = FALSE

\* "TRUE" was coerced to true
C26_Witness ==
    /\ out.op = "_as_bool"
    /\ out.arg = <<"T","R","U","E">>
    /\ out.value = TRUE

----------------------------------------------------------------------------
(* _slugify and the occurrence suffix on any name *)

MaxNameLen == 4

MaxOccurrence == 2

NameChars == {"A", "b", "1", "-", " ", "_"}

\* the names: every str of the characters up to the length bound
Names == UNION {[1..n -> NameChars] : n \in 0..MaxNameLen}

InitSlug ==
    /\ calc_path_file = File("ok", <<>>)
    /\ name_map_file = File("ok", <<>>)
    /\ registries = <<>>
    /\ registry_cache = <<>>
    /\ callable_cache = <<>>
    /\ builds = 0
    /\ req = <<>>
    /\ \E name \in Names, n \in 1..MaxOccurrence :
          out = [op |-> "", name |-> name, occurrence |-> n,
                 candidate |-> <<>>, slug |-> <<>>]

\* the slug _build_definitions gives the n-th entry whose name has this
\* candidate slug
Slugify ==
    /\ out.op = ""
    /\ out' = [out EXCEPT
                 !.op = "_slugify",
                 !.candidate = _slugify(out.name),
                 !.slug = numbered_slug(_slugify(out.name), out.occurrence)]
    /\ UNCHANGED <<calc_path_file, name_map_file, registries, registry_cache,
                   callable_cache, builds, req>>

NextSlug == Slugify

SpecSlug == InitSlug /\ [][NextSlug]_vars

\* the maximal runs of a-z and 0-9 in s, in order
RECURSIVE alnum_runs(_, _)
alnum_runs(s, cur) ==
    IF s = <<>> THEN (IF cur = <<>> THEN <<>> ELSE <<cur>>)
    ELSE IF IsAlnum(Head(s)) THEN alnum_runs(Tail(s), Append(cur, Head(s)))
    ELSE (IF cur = <<>> THEN <<>> ELSE <<cur>>) \o alnum_runs(Tail(s), <<>>)

\* the parts joined by single hyphens
RECURSIVE hyphenated(_)
hyphenated(parts) ==
    IF parts = <<>> THEN <<>>
    ELSE IF Len(parts) = 1 THEN parts[1]
    ELSE parts[1] \o <<"-">> \o hyphenated(Tail(parts))

\* non-empty, of a-z, 0-9 and hyphens only, no hyphen first or last
WellFormedSlug(slug) ==
    /\ slug # <<>>
    /\ \A i \in DOMAIN slug : IsAlnum(slug[i]) \/ slug[i] = "-"
    /\ slug[1] # "-"
    /\ slug[Len(slug)] # "-"

\* C27: the candidate slug is the runs of a-z and 0-9 of the lower-cased name
\* joined by single hyphens, or "calculator" when the name has no such run;
\* the candidate and the slug with its occurrence suffix are non-empty, hold
\* only a-z, 0-9 and hyphens, and neither start nor end with a hyphen
C27_SlugShape ==
    out.op = "_slugify"
    => /\ out.candidate =
             IF alnum_runs(lower(out.name), <<>>) = <<>>
             THEN <<"c","a","l","c","u","l","a","t","o","r">>
             ELSE hyphenated(alnum_runs(lower(out.name), <<>>))
       /\ WellFormedSlug(out.candidate)
       /\ WellFormedSlug(out.slug)

\* a name with leading, trailing and repeated separators was slugified
C27_Witness ==
    /\ out.op = "_slugify"
    /\ out.name = <<" ", "A", "_", "-">>
    /\ out.candidate = <<"a">>
    /\ out.occurrence = 2
    /\ out.slug = <<"a", "-", "2">>

----------------------------------------------------------------------------
(* More properties of the build (SpecBuild) *)

\* C28: every definition list() returns is the one get_by_slug returns for
\* its slug, and the index by slug and the index by id each hold as many
\* definitions as the list
C28_ListedReachableBySlug ==
    out.op = "list" =>
        /\ \A i \in DOMAIN out.value :
              /\ get_by_slug(registries[registry_cache[1]],
                             out.value[i].slug).raised = ""
              /\ get_by_slug(registries[registry_cache[1]],
                             out.value[i].slug).value = out.value[i]
        /\ Len(registries[registry_cache[1]]._by_slug) = Len(out.value)
        /\ Len(registries[registry_cache[1]]._by_id) = Len(out.value)

\* the field-mapping index without its incomplete entries
RECURSIVE WithoutIncomplete(_)
WithoutIncomplete(name_map) ==
    IF name_map = <<>> THEN <<>>
    ELSE IF SourceIncomplete(Head(name_map)[1], Head(name_map)[2])
    THEN WithoutIncomplete(Tail(name_map))
    ELSE <<Head(name_map)>> \o WithoutIncomplete(Tail(name_map))

\* C29: a build gives what the build of the same documents without the
\* incomplete entries of the field-mapping index gives: the same definitions
\* with the same slugs, or the same exception
C29_SkippedEntriesNotCounted ==
    out.op # "" =>
        /\ Built = _build_definitions(
                       calc_path_file,
                       File("ok", WithoutIncomplete(name_map_file.content))
                   ).value
        /\ (registry_cache = <<>>)
              = (_build_definitions(
                     calc_path_file,
                     File("ok", WithoutIncomplete(name_map_file.content))
                 ).raised # "")

\* an entry named "A" without a function was skipped and the entry after it,
\* whose name gives the same candidate slug, was registered without a suffix
C29_Witness ==
    /\ registry_cache # <<>>
    /\ Len(name_map_file.content) >= 2
    /\ SourceIncomplete(name_map_file.content[1][1],
                        name_map_file.content[1][2])
    /\ Get(name_map_file.content[1][2], K_Calculator_Name) = <<"A">>
    /\ Built # <<>>
    /\ Built[1].id = name_map_file.content[2][1]
    /\ Built[1].slug = <<"a">>

----------------------------------------------------------------------------
(* _psi_processor on inputs whose age or vital signs are absent or unusable *)

\* values float() rejects: null, a str that is no number, an empty list and a
\* pair whose first item is no number
UnusableValues == {None, <<"x">>, <<"LIST">>, Pair(<<"x">>, <<"F">>)}

\* ages that no conversion turns into a number of years: age_conversion raises
\* and the except clause of _psi_processor leaves age_years None
UnusableAges == {None, <<"x">>, <<"LIST">>}

VitalKeys == {K_heart_rate, K_respiratory_rate, K_sys_bp, K_temperature}

\* a value of each vital sign that crosses no threshold
NormalVital(k) ==
    IF k = K_heart_rate THEN <<"#","8","0">>
    ELSE IF k = K_respiratory_rate THEN <<"#","1","8">>
    ELSE IF k = K_sys_bp THEN <<"#","1","2","0">>
    ELSE Pair(<<"#","3","7">>, <<"C">>)

VitalsInputs ==
    {DropAbsent(<<
        <<K_age, age>>, <<K_nursing_home_resident, nursing>>,
        <<K_heart_rate, heart>>, <<K_respiratory_rate, respiratory>>,
        <<K_sys_bp, pressure>>, <<K_temperature, temperature>> >>) :
        age \in UnusableAges \cup {Absent, <<"#","4","5">>, <<"#","5","1">>},
        nursing \in {Absent, <<"y","e","s">>},
        heart \in {Absent, <<"x">>, <<"#","8","0">>, <<"#","1","2","5">>},
        respiratory \in {Absent, None, <<"#","1","8">>, <<"#","3","0">>},
        pressure \in {Absent, <<"LIST">>, <<"#","1","2","0">>, <<"#","8","9">>},
        temperature \in {Absent, Pair(<<"x">>, <<"F">>),
                         Pair(<<"#","3","7">>, <<"C">>),
                         Pair(<<"#","1","0","4">>, <<"F">>)}}

InitPsiVitals ==
    /\ calc_path_file = File("ok", <<>>)
    /\ name_map_file = File("ok", <<>>)
    /\ registries = <<>>
    /\ registry_cache = <<>>
    /\ callable_cache = <<>>
    /\ builds = 0
    /\ req = <<>>
    /\ \E inputs \in VitalsInputs :
          out = [op |-> "", inputs |-> inputs,
                 raw_result |-> <<<<K_Answer, <<"#","9","5">>>>>>,
                 raised |-> "", value |-> <<>>]

SpecPsiVitals == InitPsiVitals /\ [][NextPsi]_vars

\* the key is absent from the inputs or holds a value that is no number
Unusable(inputs, k) == ~Has(inputs, k) \/ Get(inputs, k) \in UnusableValues

\* C30: with age absent or not convertible is_class_i is false; with age 45,
\* no flag set and every vital sign either normal or absent or unusable,
\* is_class_i is true, so an absent or unusable vital sign is no abnormality
C30_AbsentAgeAndVitals ==
    out.op = "_psi_processor"
    => /\ out.raised = ""
       /\ (~Has(out.inputs, K_age) \/ Get(out.inputs, K_age) \in UnusableAges)
             => Get(out.value, "is_class_i") = False
       /\ (/\ Get(out.inputs, K_age) = <<"#","4","5">>
           /\ ~Has(out.inputs, K_nursing_home_resident)
           /\ \A k \in VitalKeys :
                 Unusable(out.inputs, k) \/ Get(out.inputs, k) = NormalVital(k))
             => /\ Get(out.value, "is_class_i") = True
                /\ Get(out.value, "risk_class") = "Risk Class I"

\* the fast path was taken with every vital sign absent or unusable
C30_Witness ==
    /\ out.op = "_psi_processor"
    /\ Get(out.inputs, K_age) = <<"#","4","5">>
    /\ Get(out.inputs, K_heart_rate) = <<"x">>
    /\ ~Has(out.inputs, K_respiratory_rate)
    /\ Get(out.inputs, K_sys_bp) = <<"LIST">>
    /\ Get(out.inputs, K_temperature) = Pair(<<"x">>, <<"F">>)
    /\ Get(out.value, "is_class_i") = True
====
